---- MODULE Spec2Model ----
(***************************************************************************)
(* State-machine model of the JLR diagnostic host:                         *)
(*   - send_uds_request / send_uds_request_once   (commands.rs)            *)
(*   - UdsClient::send_recv                       (uds/client.rs)          *)
(*   - the connection manager, its mutex, the RAII teardown and the        *)
(*     emulator broadcast worker (commands.rs, state.rs, device.rs,        *)
(*     ecu_emulator.rs)                                                    *)
(* Time is counted in ticks of TickSeconds; bytes are naturals below 256. *)
(***************************************************************************)
EXTENDS Naturals, Integers, Sequences, FiniteSets, TLC

\* ------------------------------------------------------------------ bounds
\* At most this many messages are handed over by one channel.read() call
\* (the code reads up to 10 per call).
MaxBatch == 2
\* Seconds per tick of the model's clock.
TickSeconds == 5
\* At most this many poll iterations fit into one tick of the clock
\* (an iteration takes 50 ms to 550 ms).
PollsPerTick == 2
\* Messages of one broadcast cycle (BROADCAST_MSGS holds 17).
NumBroadcast == 2
\* Request/response exchanges of one orchestrated flow.
MaxExchanges == 2
\* Bytes of a request handed to the emulator.
MaxReqLen == 4
\* DIDs of the longest list handed to a sweep.
MaxSweepDids == 3
\* Option ids compared, and option bytes a CCF block holds after its header.
MaxCcfOptions == 2
MaxCcfData == 3
\* Pseudo-random seeds handed to the key engine.
MaxKeySeeds == 100
MaxMsgLen == 3

\* ------------------------------------------------------- program constants
NEGATIVE_RESPONSE == 127
POSITIVE_OFFSET == 64
NRC_BUSY == 33
NRC_PENDING == 120
max_busy_retries == 6
TIMEOUT_ORDINARY_S == 5
TIMEOUT_PENDING_S == 60
CLIENT_PENDING_MS == 30000

VARIABLES
    \* --- send_uds_request (commands.rs)
    rpc,            \* "idle" | "send" | "poll" | "for" | "done"
    request,        \* request bytes of the call in progress
    wait_pending,   \* the call's wait_pending argument
    busy_attempt,   \* loop variable of the busy-retry loop
    elapsed,        \* ticks since `start` of the current attempt
    subpoll,        \* poll iterations already made in the current tick
    batch_left,     \* messages of the current read not yet looked at
    result,         \* what send_uds_request returned
    once,           \* what the latest send_uds_request_once returned
    sent,           \* history: channel.send calls of this call
    slept,          \* history: 1 s sleeps of this call
    attempts,       \* history: completed attempts of this call
    busy_count,     \* history: attempts that ended in NRC 0x21
    got_frames,     \* history: frames looked at in the current attempt (0, 1, many)
    only_stale,     \* history: every such frame was a stale NRC
    r_frame,        \* history: payload looked at by the latest step, else << >>
    \* --- UdsClient::send_recv (uds/client.rs)
    cpc,            \* "idle" | "poll" | "for" | "done"
    c_request,      \* request bytes of the call in progress
    c_timeout,      \* total_timeout, in ticks
    c_elapsed,
    c_subpoll,
    c_batch_left,
    c_result,       \* what send_recv returned
    c_last_log,     \* the latest record handed to the log callback
    c_frame,        \* history: payload looked at by the latest step, else << >>
    c_pending_seen, \* history: a 7F sid 78 for this request was looked at
    \* --- the connection behind AppState.connection (state.rs, commands.rs)
    lock,           \* holder of the connection mutex, 0 when free
    pc,             \* per command thread: where it is
    cmd,            \* per command thread: the command invoked and its arguments
    todo,           \* per command thread: drop glue / stop calls still to run
    cont,           \* per command thread: where to go when todo is empty
    left,           \* per command thread: exchanges left in the flow
    connected,      \* the Option<Connection> is Some
    channel,        \* Connection.channel is Some
    can_channel,    \* Connection.can_channel is Some
    mgr,            \* an EcuEmulatorManager exists
    handle,         \* its `handle` field is Some (worker not yet joined)
    \* --- the adapter (j2534/device.rs, j2534/dll.rs)
    lib_refs,       \* strong count of the Arc<J2534Lib>; 0 = library unloaded
    dev_open,       \* PassThruOpen done, PassThruClose not yet
    iso_open,       \* the ISO15765 channel is connected
    can_open,       \* the bench-mode raw-CAN channel is connected
    pre_can_open,   \* the pre-broadcast raw-CAN channel is connected
    \* --- the broadcast worker (ecu_emulator.rs)
    running,        \* the AtomicBool shared with the worker
    wpc,            \* "none" | "settle" | "while" | "for" | "write" | "sleep" | "exited"
    widx,           \* index into BROADCAST_MSGS of the for loop
    crashed,        \* the process died in a call through a dangling pointer
    late_writes,    \* history: writes issued with the flag already cleared
    bad_write,      \* history: a write went to a closed channel or unloaded library
    inflight,       \* history: thread whose request awaits its response, else 0
    interleaved,    \* history: an exchange started or ended inside another one
    \* --- bench mode and the channel swap (commands.rs)
    concurrent,     \* the adapter accepts a connect while another channel is open
    filters,        \* flow-control filters on the open ISO15765 channel, (tx, rx) pairs
    mgr_ecus,       \* emulated_ecus of the EcuEmulatorManager
    status,         \* what get_bench_mode_status returned to the running command
    swap,           \* history: steps of the can_pre_broadcast of the running command
    retval,         \* per command thread: what connect / disconnect returns
    \* --- the emulator short-circuit of send_uds_request (ecu_emulator.rs)
    e_pc,           \* "idle" | "build" | "done"
    e_attached,     \* the `emulator` argument is Some
    e_ecus,         \* its emulated_ecus
    e_tx,           \* tx_id of the call
    e_req,          \* request bytes of the call
    e_reply,        \* what try_handle returned
    e_out,          \* what send_uds_request returned, or that it went to the channel
    e_chan_ops,     \* history: channel operations of the call
    e_handled,      \* history: number of requests the emulator has answered, up to 3
    e_probe,        \* history: a (tx_id, request) pair fixed for the run
    e_probe_reply,  \* history: the emulator's first reply to the probe
    e_probe_hits,   \* history: times the probe was answered, up to 2
    \* run_routine / execute_routine_sdd (the SDD prerequisite flow)
    s_pc,           \* "idle" | "tp" | "session" | "seed" | "key" | "routine" | "done"
    s_impl,         \* "commands" (commands.rs) | "services" (uds/services.rs)
    s_routine,      \* routine_id
    s_data,         \* data
    s_needs_security,
    s_needs_pending,
    s_seed_resp,    \* seed_resp / seed_response, << >> before it arrives
    s_result,       \* what the call returned
    s_sent,         \* history: the requests the call has handed to the transport
    s_failed_at,    \* history: index in s_sent of the request that got an error, or 0
    s_keygen_runs,  \* history: calls of keygen_mki made by the call
    \* --- read_imc_info / read_bcm_info / read_gwm_info / read_ipc_info
    i_pc,           \* "idle" | "poll" | "tp" | "did" | "ext" | "done"
    i_ecu,          \* "imc" | "bcm" | "gwm" | "ipc"
    i_bench,        \* emulator.is_some()
    i_attempt,      \* `attempt` of the tester-present poll loop
    i_idx,          \* index of the next DID of the ECU's list
    i_ext,          \* outcome of the 10 03 request: "none" | "ok" | "err"
    i_entries,      \* the rows pushed so far
    i_reqs,         \* history: the requests sent by the call, in order
    i_poll_oks,     \* history: tester-present polls that were answered
    i_slept_s,      \* history: seconds slept in the poll loop
    \* --- scan_ecu_dids
    w_pc,           \* "idle" | "pass1" | "ext" | "pass2" | "dump" | "done"
    w_dids,         \* all_dids
    w_idx,          \* index of the next DID of the running pass
    w_results,      \* did_results
    w_failed,       \* failed_in_default
    w_session,      \* the diagnostic session the ECU is in
    w_reqs,         \* history: requests of the call and the ECU's session at each
    \* --- compare_ccf
    cc_pc,           \* "idle" | "decode" | "done"
    cc_table,        \* the entry CCF_DECODE_JSON holds for the option ids
    cc_blocks,       \* gwm_block, bcm_block, imc_block
    cc_entries,      \* entries
    cc_result,       \* "none" | "ok" | "err"
    \* --- keygen_mki called on its own
    k_pc,           \* "idle" | "run" | "done"
    k_seed,         \* the seed argument
    k_key,          \* the value returned, -1 before the return
    \* --- NegativeResponseCode::from_byte and to_byte
    n_pc,           \* "idle" | "decoded" | "done"
    n_byte,         \* the byte handed to from_byte
    n_nrc,          \* what from_byte returned
    n_back,         \* what to_byte returned for it
    \* --- PassThruMsg::new_iso15765, can_id and payload
    m_pc,           \* "idle" | "built" | "done"
    m_tx,           \* the tx_id the message was built from
    m_pl,           \* the payload it was built from
    m_msg,          \* the message
    m_id,           \* what can_id returned, -1 before the call
    m_out           \* what payload returned

reqvars == <<rpc, request, wait_pending, busy_attempt, elapsed, subpoll, batch_left,
             result, once, sent, slept, attempts, busy_count, got_frames, only_stale,
             r_frame>>
clivars == <<cpc, c_request, c_timeout, c_elapsed, c_subpoll, c_batch_left, c_result,
             c_last_log, c_frame, c_pending_seen>>

thrvars == <<lock, pc, cmd, todo, cont, left>>
fieldvars == <<connected, channel, can_channel, mgr, handle>>
adaptervars == <<lib_refs, dev_open, iso_open, can_open, pre_can_open>>
workervars == <<running, wpc, widx, crashed, late_writes, bad_write>>
histvars == <<inflight, interleaved>>
benchvars == <<concurrent, filters, mgr_ecus, status, swap, retval>>
connvars == <<thrvars, fieldvars, adaptervars, workervars, histvars, benchvars>>
emuvars == <<e_pc, e_attached, e_ecus, e_tx, e_req, e_reply, e_out, e_chan_ops, e_handled,
             e_probe, e_probe_reply, e_probe_hits>>
infovars == <<i_pc, i_ecu, i_bench, i_attempt, i_idx, i_ext, i_entries, i_reqs, i_poll_oks,
              i_slept_s>>
msgvars == <<m_pc, m_tx, m_pl, m_msg, m_id, m_out>>
nrcvars == <<n_pc, n_byte, n_nrc, n_back>>
keyvars == <<k_pc, k_seed, k_key>>
ccfvars == <<cc_pc, cc_table, cc_blocks, cc_entries, cc_result>>
sweepvars == <<w_pc, w_dids, w_idx, w_results, w_failed, w_session, w_reqs>>
sddvars == <<s_pc, s_impl, s_routine, s_data, s_needs_security, s_needs_pending,
             s_seed_resp, s_result, s_sent, s_failed_at, s_keygen_runs>>

\* What the steps of one subsystem leave alone.
nonreqvars == <<clivars, connvars, emuvars, sddvars, infovars, sweepvars, ccfvars, keyvars, nrcvars, msgvars>>
nonclivars == <<reqvars, connvars, emuvars, sddvars, infovars, sweepvars, ccfvars, keyvars, nrcvars, msgvars>>
nonconnvars == <<reqvars, clivars, emuvars, sddvars, infovars, sweepvars, ccfvars, keyvars, nrcvars, msgvars>>
nonemuvars == <<reqvars, clivars, connvars, sddvars, infovars, sweepvars, ccfvars, keyvars, nrcvars, msgvars>>
nonsddvars == <<reqvars, clivars, connvars, emuvars, infovars, sweepvars, ccfvars, keyvars, nrcvars, msgvars>>
noninfovars == <<reqvars, clivars, connvars, emuvars, sddvars, sweepvars, ccfvars, keyvars, nrcvars, msgvars>>
nonsweepvars == <<reqvars, clivars, connvars, emuvars, sddvars, infovars, ccfvars, keyvars, nrcvars, msgvars>>
nonccfvars == <<reqvars, clivars, connvars, emuvars, sddvars, infovars, sweepvars, keyvars, nrcvars, msgvars>>
nonkeyvars == <<reqvars, clivars, connvars, emuvars, sddvars, infovars, sweepvars, ccfvars, nrcvars, msgvars>>
nonnrcvars == <<reqvars, clivars, connvars, emuvars, sddvars, infovars, sweepvars, ccfvars, keyvars, msgvars>>
nonmsgvars == <<reqvars, clivars, connvars, emuvars, sddvars, infovars, sweepvars, ccfvars, keyvars, nrcvars>>

vars == <<reqvars, clivars, connvars, emuvars, sddvars, infovars, sweepvars, ccfvars, keyvars,
         nrcvars, msgvars>>

\* ------------------------------------------------------------ byte helpers
Hex2(b) == <<b \div 16, b % 16>>

\* ------------------------------------------------ PassThruMsg (types.rs)
IMC_TX == 1971
IMC_RX == 1979
BCM_TX == 1830
GWM_TX == 1814
IPC_TX == 1824
BCM_RX == 1838
GWM_RX == 1822
IPC_RX == 1832
PRE_CYCLES == 50
PRE_SLEEP_MS == 100

\* The header written low byte first.
CanHeaderLittleEndian(id) ==
    << id % 256, (id \div 256) % 256, (id \div 65536) % 256, (id \div 16777216) % 256 >>

CanHeader(id) ==
    << (id \div 16777216) % 256, (id \div 65536) % 256, (id \div 256) % 256, id % 256 >>

new_iso15765(tx_id, pl) ==
    [protocol_id |-> 6, tx_flags |-> 64, data_size |-> 4 + Len(pl),
     data |-> CanHeader(tx_id) \o pl]

can_id(m) ==
    m.data[1] * 16777216 + m.data[2] * 65536 + m.data[3] * 256 + m.data[4]

payload(m) ==
    IF m.data_size > 4 THEN SubSeq(m.data, 5, m.data_size) ELSE << >>

\* ------------------------------------- NegativeResponseCode (uds/error.rs)
FromByteTable ==
    << <<16, "GeneralReject">>, <<17, "ServiceNotSupported">>,
       <<18, "SubFunctionNotSupported">>,
       <<19, "IncorrectMessageLengthOrInvalidFormat">>, <<20, "ResponseTooLong">>,
       <<33, "BusyRepeatRequest">>, <<34, "ConditionsNotCorrect">>,
       <<36, "RequestSequenceError">>, <<37, "NoResponseFromSubnetComponent">>,
       <<38, "FailurePreventsExecutionOfRequestedAction">>,
       <<49, "RequestOutOfRange">>, <<51, "SecurityAccessDenied">>,
       <<52, "AuthenticationRequired">>, <<53, "InvalidKey">>,
       <<54, "ExceededNumberOfAttempts">>, <<55, "RequiredTimeDelayNotExpired">>,
       <<56, "SecureDataTransmissionRequired">>,
       <<57, "SecureDataTransmissionNotAllowed">>,
       <<58, "SecureDataVerificationFailed">>, <<112, "UploadDownloadNotAccepted">>,
       <<113, "TransferDataSuspended">>, <<114, "GeneralProgrammingFailure">>,
       <<115, "WrongBlockSequenceCounter">>,
       <<120, "RequestCorrectlyReceivedResponsePending">>,
       <<126, "SubFunctionNotSupportedInActiveSession">>,
       <<127, "ServiceNotSupportedInActiveSession">> >>

\* `other => Self::Unknown(other)` losing the byte.
from_byte_drops_code(b) ==
    IF \E i \in 1..Len(FromByteTable) : FromByteTable[i][1] = b
    THEN [variant |-> FromByteTable[CHOOSE i \in 1..Len(FromByteTable) :
                                        FromByteTable[i][1] = b][2],
          code |-> 0]
    ELSE [variant |-> "Unknown", code |-> 0]

from_byte(b) ==
    IF \E i \in 1..Len(FromByteTable) : FromByteTable[i][1] = b
    THEN [variant |-> FromByteTable[CHOOSE i \in 1..Len(FromByteTable) :
                                        FromByteTable[i][1] = b][2],
          code |-> 0]
    ELSE [variant |-> "Unknown", code |-> b]

\* The arms of `match self` in to_byte, Unknown(code) apart.
ToByteTable ==
    << <<"GeneralReject", 16>>,
       <<"ServiceNotSupported", 17>>,
       <<"SubFunctionNotSupported", 18>>,
       <<"IncorrectMessageLengthOrInvalidFormat", 19>>,
       <<"ResponseTooLong", 20>>,
       <<"BusyRepeatRequest", 33>>,
       <<"ConditionsNotCorrect", 34>>,
       <<"RequestSequenceError", 36>>,
       <<"NoResponseFromSubnetComponent", 37>>,
       <<"FailurePreventsExecutionOfRequestedAction", 38>>,
       <<"RequestOutOfRange", 49>>,
       <<"SecurityAccessDenied", 51>>,
       <<"AuthenticationRequired", 52>>,
       <<"InvalidKey", 53>>,
       <<"ExceededNumberOfAttempts", 54>>,
       <<"RequiredTimeDelayNotExpired", 55>>,
       <<"SecureDataTransmissionRequired", 56>>,
       <<"SecureDataTransmissionNotAllowed", 57>>,
       <<"SecureDataVerificationFailed", 58>>,
       <<"UploadDownloadNotAccepted", 112>>,
       <<"TransferDataSuspended", 113>>,
       <<"GeneralProgrammingFailure", 114>>,
       <<"WrongBlockSequenceCounter", 115>>,
       <<"RequestCorrectlyReceivedResponsePending", 120>>,
       <<"SubFunctionNotSupportedInActiveSession", 126>>,
       <<"ServiceNotSupportedInActiveSession", 127>> >>

to_byte(n) ==
    IF n.variant = "Unknown" THEN n.code
    ELSE ToByteTable[CHOOSE i \in 1..Len(ToByteTable) : ToByteTable[i][1] = n.variant][2]

is_pending(n) == n.variant = "RequestCorrectlyReceivedResponsePending"

\* ------------------------------------------------------------ results
NoResult == [kind |-> "none", sid |-> 0, nrc |-> 0, data |-> << >>]
Ok(d) == [kind |-> "Ok", sid |-> 0, nrc |-> 0, data |-> d]
ErrNrc(s, n) == [kind |-> "Nrc", sid |-> s, nrc |-> n, data |-> << >>]
ErrTimeout == [kind |-> "Timeout", sid |-> 0, nrc |-> 0, data |-> << >>]
ErrTransport == [kind |-> "Transport", sid |-> 0, nrc |-> 0, data |-> << >>]
ErrMaxBusy == [kind |-> "MaxBusy", sid |-> 0, nrc |-> 0, data |-> << >>]
Continue == [kind |-> "continue", sid |-> 0, nrc |-> 0, data |-> << >>]

\* e.contains("0x21") on the error text: only the Display of an NRC prints
\* "(0xNN)", with NN the two upper-case hex digits of the code; the texts of
\* the timeout and of the transport errors hold no "0x".
contains_0x21(e) == e.kind = "Nrc" /\ Hex2(e.nrc) = <<2, 1>>

\* ------------------------------------------------- what the bus can deliver
Requests == { <<34, 241, 144>>, <<49, 1, 96, 62>> }

Payloads ==
    { <<98, 241, 144, 86>>, <<113, 1, 96, 62>>, <<80, 3, 0, 50>>, <<127, 34>>, << >> }
    \cup { <<127, s, n>> : s \in {16, 34, 49}, n \in {33, 49, 120} }

RxMsgs == { new_iso15765(IMC_RX, p) : p \in Payloads }

IsStaleNrc(req, p) ==
    Len(p) >= 3 /\ p[1] = NEGATIVE_RESPONSE /\ p[2] # req[1]

\* The clock after one poll iteration: the same tick, or the next one.
Tick(e, s, e2, s2) ==
    \/ s + 1 < PollsPerTick /\ e2 = e /\ s2 = s + 1
    \/ e2 = e + 1 /\ s2 = 0

\* ------------------------------------- send_uds_request_once, one message
\* The body of `for m in msgs`: Continue, or the value the function returns.
OnceMsgNoStaleCheck(req, m) ==
    LET p == payload(m) IN
    IF m.data_size <= 4 \/ p = << >> THEN Continue
    ELSE IF p[1] = NEGATIVE_RESPONSE /\ Len(p) >= 3
         THEN IF p[3] = NRC_PENDING THEN Continue ELSE ErrNrc(p[2], p[3])
         ELSE IF p[1] = req[1] + POSITIVE_OFFSET THEN Ok(p) ELSE Continue

OnceMsg(req, m) ==
    LET p == payload(m) IN
    IF m.data_size <= 4 \/ p = << >> THEN Continue
    ELSE IF p[1] = NEGATIVE_RESPONSE /\ Len(p) >= 3
         THEN IF p[2] # req[1] THEN Continue
              ELSE IF p[3] = NRC_PENDING THEN Continue
              ELSE ErrNrc(p[2], p[3])
         ELSE IF p[1] = req[1] + POSITIVE_OFFSET THEN Ok(p) ELSE Continue

TimeoutOf(wp) ==
    (IF wp THEN TIMEOUT_PENDING_S ELSE TIMEOUT_ORDINARY_S) \div TickSeconds

\* --------------------------------------------- send_uds_request, the match
\* `Err(e) if e.contains("0x21") && busy_attempt < max_busy_retries`
ShouldRetryAnyError(e, attempt) == attempt < max_busy_retries

ShouldRetryPastCap(e, attempt) == contains_0x21(e) /\ attempt <= max_busy_retries

ShouldRetry(e, attempt) == contains_0x21(e) /\ attempt < max_busy_retries

\* The state after send_uds_request_once returned r in iteration busy_attempt
\* of `for busy_attempt in 0..=max_busy_retries`.
AfterAttempt(r) ==
    /\ once' = r
    /\ attempts' = attempts + 1
    /\ busy_count' = busy_count + (IF r.kind = "Nrc" /\ r.nrc = NRC_BUSY THEN 1 ELSE 0)
    /\ batch_left' = 0
    /\ IF r.kind = "Ok"
       THEN /\ result' = r
            /\ rpc' = "done"
            /\ UNCHANGED <<busy_attempt, slept>>
       ELSE IF ShouldRetry(r, busy_attempt)
       THEN /\ slept' = slept + 1
            /\ IF busy_attempt + 1 <= max_busy_retries
               THEN /\ busy_attempt' = busy_attempt + 1
                    /\ rpc' = "send"
                    /\ result' = result
               ELSE /\ busy_attempt' = busy_attempt
                    /\ rpc' = "done"
                    /\ result' = ErrMaxBusy
       ELSE /\ result' = r
            /\ rpc' = "done"
            /\ UNCHANGED <<busy_attempt, slept>>

ReqInit ==
    /\ rpc = "idle"
    /\ request = <<34, 241, 144>>
    /\ wait_pending = FALSE
    /\ busy_attempt = 0
    /\ elapsed = 0
    /\ subpoll = 0
    /\ batch_left = 0
    /\ result = NoResult
    /\ once = NoResult
    /\ sent = 0
    /\ slept = 0
    /\ attempts = 0
    /\ busy_count = 0
    /\ got_frames = 0
    /\ only_stale = TRUE
    /\ r_frame = << >>

\* A caller invokes send_uds_request; no emulator handles tx_id.
ReqCall ==
    /\ rpc \in {"idle", "done"}
    /\ \E req \in Requests, wp \in BOOLEAN :
          /\ request' = req
          /\ wait_pending' = wp
    /\ rpc' = "send"
    /\ busy_attempt' = 0
    /\ elapsed' = 0
    /\ subpoll' = 0
    /\ batch_left' = 0
    /\ result' = NoResult
    /\ once' = NoResult
    /\ sent' = 0
    /\ slept' = 0
    /\ attempts' = 0
    /\ busy_count' = 0
    /\ got_frames' = 0
    /\ only_stale' = TRUE
    /\ r_frame' = << >>
    /\ UNCHANGED nonreqvars

\* send_uds_request_once up to `let start = Instant::now()`.
ReqSend ==
    /\ rpc = "send"
    /\ sent' = sent + 1
    /\ got_frames' = 0
    /\ only_stale' = TRUE
    /\ elapsed' = 0
    /\ subpoll' = 0
    /\ \E ok \in BOOLEAN :
          IF ok
          THEN /\ rpc' = "poll"
               /\ UNCHANGED <<result, once, busy_attempt, slept, attempts, busy_count,
                              batch_left>>
          ELSE AfterAttempt(ErrTransport)
    /\ UNCHANGED <<request, wait_pending>>
    /\ r_frame' = << >>
    /\ UNCHANGED nonreqvars

\* The top of the poll loop finds the deadline passed.
ReqTimeout ==
    /\ rpc = "poll"
    /\ elapsed > TimeoutOf(wait_pending)
    /\ AfterAttempt(ErrTimeout)
    /\ UNCHANGED <<request, wait_pending, elapsed, subpoll, sent, got_frames, only_stale>>
    /\ r_frame' = << >>
    /\ UNCHANGED nonreqvars

\* channel.read(500) fails.
ReqReadFail ==
    /\ rpc = "poll"
    /\ elapsed <= TimeoutOf(wait_pending)
    /\ AfterAttempt(ErrTransport)
    /\ UNCHANGED <<request, wait_pending, elapsed, subpoll, sent, got_frames, only_stale>>
    /\ r_frame' = << >>
    /\ UNCHANGED nonreqvars

\* channel.read(500) hands over n messages.
ReqRead ==
    /\ rpc = "poll"
    /\ elapsed <= TimeoutOf(wait_pending)
    /\ \E n \in 0..MaxBatch : batch_left' = n
    /\ rpc' = "for"
    /\ UNCHANGED <<request, wait_pending, busy_attempt, elapsed, subpoll, result, once,
                   sent, slept, attempts, busy_count, got_frames, only_stale>>
    /\ r_frame' = << >>
    /\ UNCHANGED nonreqvars

\* One iteration of `for m in msgs`.
ReqMsg ==
    /\ rpc = "for"
    /\ batch_left > 0
    /\ \E m \in RxMsgs :
          LET r == OnceMsg(request, m) IN
          /\ r_frame' = payload(m)
          /\ got_frames' = IF got_frames = 2 THEN 2 ELSE got_frames + 1
          /\ only_stale' = (only_stale /\ IsStaleNrc(request, payload(m)))
          /\ IF r.kind = "continue"
             THEN /\ batch_left' = batch_left - 1
                  /\ UNCHANGED <<rpc, result, once, busy_attempt, slept, attempts,
                                 busy_count>>
             ELSE AfterAttempt(r)
    /\ UNCHANGED <<request, wait_pending, elapsed, subpoll, sent>>
    /\ UNCHANGED nonreqvars

\* The 50 ms sleep that ends a poll iteration.
ReqSleep ==
    /\ rpc = "for"
    /\ batch_left = 0
    /\ Tick(elapsed, subpoll, elapsed', subpoll')
    /\ rpc' = "poll"
    /\ UNCHANGED <<request, wait_pending, busy_attempt, batch_left, result, once, sent,
                   slept, attempts, busy_count, got_frames, only_stale>>
    /\ r_frame' = << >>
    /\ UNCHANGED nonreqvars

\* ------------------------------------------ UdsClient::send_recv (client.rs)
ClientTimeoutsMs == {3000, 5000}

NoLog == [direction |-> "none", data |-> << >>]
Log(d, bytes) == [direction |-> d, data |-> bytes]

\* The body of `for msg in msgs`: the value returned (or Continue) and the
\* record handed to the log callback (or NoLog).
ClientMsgNoPending(req, m) ==
    LET p == payload(m) IN
    IF m.data_size <= 4 \/ p = << >> THEN [ret |-> Continue, log |-> NoLog]
    ELSE IF p[1] = NEGATIVE_RESPONSE /\ Len(p) >= 3
         THEN [ret |-> ErrNrc(p[2], p[3]), log |-> Log("Error", p)]
         ELSE IF p[1] = req[1] + POSITIVE_OFFSET
              THEN [ret |-> Ok(p), log |-> Log("Rx", p)]
              ELSE [ret |-> Continue, log |-> Log("Error", p)]

\* Every frame that is not a negative response taken as the answer.
ClientMsgAnyPositive(req, m) ==
    LET p == payload(m) IN
    IF m.data_size <= 4 \/ p = << >> THEN [ret |-> Continue, log |-> NoLog]
    ELSE IF p[1] = NEGATIVE_RESPONSE /\ Len(p) >= 3
         THEN IF is_pending(from_byte(p[3]))
              THEN [ret |-> Continue, log |-> Log("Pending", p)]
              ELSE [ret |-> ErrNrc(p[2], p[3]), log |-> Log("Error", p)]
         ELSE [ret |-> Ok(p), log |-> Log("Rx", p)]

ClientMsg(req, m) ==
    LET p == payload(m) IN
    IF m.data_size <= 4 \/ p = << >> THEN [ret |-> Continue, log |-> NoLog]
    ELSE IF p[1] = NEGATIVE_RESPONSE /\ Len(p) >= 3
         THEN IF is_pending(from_byte(p[3]))
              THEN [ret |-> Continue, log |-> Log("Pending", p)]
              ELSE [ret |-> ErrNrc(p[2], p[3]), log |-> Log("Error", p)]
         ELSE IF p[1] = req[1] + POSITIVE_OFFSET
              THEN [ret |-> Ok(p), log |-> Log("Rx", p)]
              ELSE [ret |-> Continue, log |-> Log("Error", p)]

\* A 7F sid 78 frame starting the wait afresh.
ElapsedRestartsOnPending(e, o) == IF o.log.direction = "Pending" THEN 0 ELSE e

\* `start` is taken once, before the loop: looking at a frame leaves the
\* time elapsed since `start` as it is.
ElapsedAfterFrame(e, o) == e

total_timeout(timeout_ms, wp) ==
    ((IF wp THEN CLIENT_PENDING_MS ELSE timeout_ms) \div 1000) \div TickSeconds

CliInit ==
    /\ cpc = "idle"
    /\ c_request = <<34, 241, 144>>
    /\ c_timeout = 0
    /\ c_elapsed = 0
    /\ c_subpoll = 0
    /\ c_batch_left = 0
    /\ c_result = NoResult
    /\ c_last_log = NoLog
    /\ c_frame = << >>
    /\ c_pending_seen = FALSE

\* send_recv up to `let start = Instant::now()`.
CliCall ==
    /\ cpc \in {"idle", "done"}
    /\ \E req \in Requests, ms \in ClientTimeoutsMs, wp \in BOOLEAN, ok \in BOOLEAN :
          /\ c_request' = req
          /\ c_timeout' = total_timeout(ms, wp)
          /\ c_last_log' = Log("Tx", req)
          /\ IF ok
             THEN cpc' = "poll" /\ c_result' = NoResult
             ELSE cpc' = "done" /\ c_result' = ErrTransport
    /\ c_elapsed' = 0
    /\ c_subpoll' = 0
    /\ c_batch_left' = 0
    /\ c_frame' = << >>
    /\ c_pending_seen' = FALSE
    /\ UNCHANGED nonclivars

CliTimeout ==
    /\ cpc = "poll"
    /\ c_elapsed > c_timeout
    /\ c_last_log' = Log("Error", << >>)
    /\ c_result' = ErrTimeout
    /\ cpc' = "done"
    /\ c_frame' = << >>
    /\ UNCHANGED <<c_request, c_timeout, c_elapsed, c_subpoll, c_batch_left, c_pending_seen>>
    /\ UNCHANGED nonclivars

CliReadFail ==
    /\ cpc = "poll"
    /\ c_elapsed <= c_timeout
    /\ c_result' = ErrTransport
    /\ cpc' = "done"
    /\ c_frame' = << >>
    /\ UNCHANGED <<c_request, c_timeout, c_elapsed, c_subpoll, c_batch_left, c_last_log,
                   c_pending_seen>>
    /\ UNCHANGED nonclivars

CliRead ==
    /\ cpc = "poll"
    /\ c_elapsed <= c_timeout
    /\ \E n \in 0..MaxBatch : c_batch_left' = n
    /\ cpc' = "for"
    /\ c_frame' = << >>
    /\ UNCHANGED <<c_request, c_timeout, c_elapsed, c_subpoll, c_result, c_last_log,
                   c_pending_seen>>
    /\ UNCHANGED nonclivars

CliMsg ==
    /\ cpc = "for"
    /\ c_batch_left > 0
    /\ \E m \in RxMsgs :
          LET o == ClientMsg(c_request, m) IN
          /\ c_frame' = payload(m)
          /\ c_pending_seen' =
                (c_pending_seen \/ payload(m) = <<NEGATIVE_RESPONSE, c_request[1], NRC_PENDING>>)
          /\ c_last_log' = IF o.log = NoLog THEN c_last_log ELSE o.log
          /\ IF o.ret.kind = "continue"
             THEN /\ c_batch_left' = c_batch_left - 1
                  /\ UNCHANGED <<cpc, c_result>>
             ELSE /\ c_batch_left' = 0
                  /\ c_result' = o.ret
                  /\ cpc' = "done"
          /\ c_elapsed' = ElapsedAfterFrame(c_elapsed, o)
    /\ UNCHANGED <<c_request, c_timeout, c_subpoll>>
    /\ UNCHANGED nonclivars

CliSleep ==
    /\ cpc = "for"
    /\ c_batch_left = 0
    /\ Tick(c_elapsed, c_subpoll, c_elapsed', c_subpoll')
    /\ cpc' = "poll"
    /\ c_frame' = << >>
    /\ UNCHANGED <<c_request, c_timeout, c_batch_left, c_result, c_last_log, c_pending_seen>>
    /\ UNCHANGED nonclivars

\* ------------------------------------ commands on the connection (commands.rs)
T == {1, 2}

\* The `ecus: Option<Vec<String>>` argument of toggle_bench_mode.
NoEcus == [some |-> FALSE, names |-> << >>]
SomeEcus(names) == [some |-> TRUE, names |-> names]
EcuArgs == { NoEcus, SomeEcus(<<"BCM", "gwm">>), SomeEcus(<<"xyz">>) }

NoCmd == [kind |-> "none", enabled |-> FALSE, ecus |-> NoEcus, imc |-> FALSE]

Commands ==
    { [kind |-> k, enabled |-> FALSE, ecus |-> NoEcus, imc |-> FALSE] :
          k \in {"connect", "disconnect", "toggle_bench_mode", "flow",
                 "get_bench_mode_status"} }
    \cup { [kind |-> "toggle_bench_mode", enabled |-> TRUE, ecus |-> e, imc |-> FALSE] :
          e \in EcuArgs }
    \cup { [kind |-> "read_ecu_info", enabled |-> FALSE, ecus |-> NoEcus, imc |-> i] :
          i \in BOOLEAN }

\* str::to_lowercase on the names used here.
to_lowercase(s) ==
    CASE s = "BCM" -> "bcm"
      [] s = "GWM" -> "gwm"
      [] s = "IPC" -> "ipc"
      [] OTHER -> s

\* EcuId::from_str; an EcuId is written as its lower-case name, and the
\* Option as a sequence of at most one element.
from_str(s) ==
    IF to_lowercase(s) \in {"bcm", "gwm", "ipc"} THEN <<to_lowercase(s)>> ELSE << >>

\* EcuId::name
name(ecu) ==
    CASE ecu = "bcm" -> "BCM"
      [] ecu = "gwm" -> "GWM"
      [] ecu = "ipc" -> "IPC"

RECURSIVE filter_map_from_str(_)
filter_map_from_str(names) ==
    IF names = << >> THEN << >>
    ELSE from_str(Head(names)) \o filter_map_from_str(Tail(names))

\* ecus.unwrap_or_else(|| vec!["bcm"]).iter().filter_map(EcuId::from_str)
ecu_ids_default(ecus) == <<"bcm">>

ecu_ids(ecus) == filter_map_from_str(IF ecus.some THEN ecus.names ELSE <<"bcm">>)

\* BenchModeStatus
NoStatus == [some |-> FALSE, enabled |-> FALSE, emulated_ecus |-> << >>]

BenchEnabledNever(has_mgr) == FALSE

BenchEnabled(has_mgr) == has_mgr

BenchModeStatus(has_mgr, ecus) ==
    [some |-> TRUE,
     enabled |-> BenchEnabled(has_mgr),
     emulated_ecus |-> IF has_mgr
                       THEN [i \in 1..Len(ecus) |-> to_lowercase(name(ecus[i]))]
                       ELSE << >>]

\* The adapter: one that refuses concurrent channels fails a connect while
\* any channel is open; otherwise a connect succeeds or fails.
MayConnectWith(iso, can, pre) == concurrent \/ ~(iso \/ can \/ pre)

MayConnect == MayConnectWith(iso_open, can_open, pre_can_open)

ConnectOutcomes == IF MayConnect THEN BOOLEAN ELSE {FALSE}

IMC_PAIR == <<IMC_TX, IMC_RX>>
BCM_PAIR == <<BCM_TX, BCM_RX>>
GWM_PAIR == <<GWM_TX, GWM_RX>>
IPC_PAIR == <<IPC_TX, IPC_RX>>

\* The setup_iso15765_filter calls of connect, in order.
ConnectFilterList == <<IMC_PAIR, BCM_PAIR, GWM_PAIR, IPC_PAIR>>

\* The setup_iso15765_filter calls of can_pre_broadcast, in order.
ReopenFilterListNoIpc == <<IMC_PAIR, BCM_PAIR, GWM_PAIR>>

ReopenFilterList == <<IMC_PAIR, BCM_PAIR, GWM_PAIR, IPC_PAIR>>

\* conn.channel.take(): the J2534Channel, if any, is dropped, which
\* disconnects it.
TakeKeepsOpen(open) == open

TakeCloses(open) == FALSE

\* One step of can_pre_broadcast as recorded in `swap`.
SwapEv(op) == [op |-> op, ms |-> 0]

\* 50 cycles, each followed by a sleep of 100 ms.
BroadcastEv == [op |-> "broadcast", ms |-> PRE_CYCLES * PRE_SLEEP_MS]

\* Fields of Connection in declaration order, which is the order Rust drops
\* them in.  state.rs declares lib, device, channel, dll_path and the
\* emulator, in that order; can_channel is placed where the struct literal
\* of connect() names it.
DropOrderKeepsChannel == <<"lib", "device", "can_channel", "dll_path", "emulator_manager">>

DropOrder == <<"lib", "device", "channel", "can_channel", "dll_path", "emulator_manager">>

\* EcuEmulatorManager::stop, as the two things it does.
StopOps == <<"stop_flag", "stop_join">>

\* Drop for EcuEmulatorManager calls stop; then the value is gone.
ManagerDropOps == StopOps \o <<"mgr_free">>

RECURSIVE DropGlue(_, _)
DropGlue(fields, has_mgr) ==
    IF fields = << >> THEN << >>
    ELSE (IF Head(fields) = "emulator_manager"
          THEN (IF has_mgr THEN ManagerDropOps ELSE << >>)
          ELSE <<Head(fields)>>) \o DropGlue(Tail(fields), has_mgr)

\* state.connection.lock() returns once no other thread holds the guard.
CanLockAlways(l) == TRUE

CanLock(l) == l = 0

\* JoinHandle::join returns once the worker's closure has returned.
JoinReturnsAtOnce(w) == TRUE

JoinReturns(w) == w = "exited"

\* `if !running.load(Ordering::Relaxed) { break; }`
ForIgnoresFlag(r) == TRUE

ForContinues(r) == r

Goto(t, p) == pc' = [pc EXCEPT ![t] = p]

ConnInit ==
    /\ lock = 0
    /\ pc = [t \in T |-> "idle"]
    /\ cmd = [t \in T |-> NoCmd]
    /\ todo = [t \in T |-> << >>]
    /\ cont = [t \in T |-> "ret"]
    /\ left = [t \in T |-> 0]
    /\ connected = FALSE
    /\ channel = FALSE
    /\ can_channel = FALSE
    /\ mgr = FALSE
    /\ handle = FALSE
    /\ lib_refs = 0
    /\ dev_open = FALSE
    /\ iso_open = FALSE
    /\ can_open = FALSE
    /\ pre_can_open = FALSE
    /\ running = FALSE
    /\ wpc = "none"
    /\ widx = 1
    /\ crashed = FALSE
    /\ late_writes = 0
    /\ bad_write = FALSE
    /\ inflight = 0
    /\ interleaved = FALSE
    /\ concurrent \in BOOLEAN
    /\ filters = << >>
    /\ mgr_ecus = << >>
    /\ status = NoStatus
    /\ swap = << >>
    /\ retval = [t \in T |-> "none"]

\* The frontend invokes a command; it runs on a thread of its own.
Invoke(t) ==
    /\ ~crashed
    /\ pc[t] = "idle"
    /\ \E c \in Commands : cmd' = [cmd EXCEPT ![t] = c]
    /\ Goto(t, "lock")
    /\ UNCHANGED <<lock, todo, cont, left>>
    /\ UNCHANGED <<fieldvars, adaptervars, workervars, histvars, nonconnvars>>
    /\ UNCHANGED <<concurrent, filters, mgr_ecus, status, swap>>
    /\ UNCHANGED retval

\* `let mut conn = state.connection.lock()...`, the first statement of
\* every command.
Acquire(t) ==
    /\ ~crashed
    /\ pc[t] = "lock"
    /\ CanLock(lock)
    /\ lock' = t
    /\ Goto(t, cmd[t].kind)
    /\ UNCHANGED <<cmd, todo, cont, left>>
    /\ UNCHANGED <<fieldvars, adaptervars, workervars, histvars, nonconnvars>>
    /\ UNCHANGED <<concurrent, filters, mgr_ecus, status, swap>>
    /\ UNCHANGED retval

\* The command returns; the guard is dropped last.
Return(t) ==
    /\ ~crashed
    /\ pc[t] = "ret"
    /\ lock' = 0
    /\ Goto(t, "idle")
    /\ cmd' = [cmd EXCEPT ![t] = NoCmd]
    /\ left' = [left EXCEPT ![t] = 0]
    /\ status' = NoStatus
    /\ swap' = << >>
    /\ retval' = [retval EXCEPT ![t] = "none"]
    /\ UNCHANGED <<todo, cont>>
    /\ UNCHANGED <<fieldvars, adaptervars, workervars, histvars, nonconnvars>>
    /\ UNCHANGED <<concurrent, filters, mgr_ecus>>

\* connect: the "Already connected" check, then J2534Lib::load and
\* J2534Device::open.
Connect(t) ==
    /\ ~crashed
    /\ pc[t] = "connect"
    /\ IF connected
       THEN /\ Goto(t, "ret")
            /\ retval' = [retval EXCEPT ![t] = "Err: Already connected. Disconnect first."]
            /\ UNCHANGED <<lib_refs, dev_open>>
       ELSE \E ok \in BOOLEAN :
               IF ok
               THEN /\ lib_refs' = lib_refs + 2
                    /\ dev_open' = TRUE
                    /\ Goto(t, "connect_iso")
                    /\ UNCHANGED retval
               ELSE /\ Goto(t, "ret")
                    /\ retval' = [retval EXCEPT ![t] = "Err: open"]
                    /\ UNCHANGED <<lib_refs, dev_open>>
    /\ UNCHANGED <<lock, cmd, todo, cont, left, iso_open, can_open, pre_can_open>>
    /\ UNCHANGED <<fieldvars, workervars, histvars, nonconnvars>>
    /\ UNCHANGED <<concurrent, filters, mgr_ecus, status, swap>>

\* connect: read_version and connect_iso15765; on failure the locals
\* device and lib are dropped, in that order.
ConnectIso(t) ==
    /\ ~crashed
    /\ pc[t] = "connect_iso"
    /\ \E ok \in ConnectOutcomes :
          IF ok
          THEN /\ iso_open' = TRUE
               /\ lib_refs' = lib_refs + 1
               /\ Goto(t, "connect_filters")
               /\ UNCHANGED <<todo, cont, retval>>
          ELSE /\ todo' = [todo EXCEPT ![t] = <<"device", "lib">>]
               /\ cont' = [cont EXCEPT ![t] = "ret"]
               /\ retval' = [retval EXCEPT ![t] = "Err: PassThruConnect failed"]
               /\ Goto(t, "drop")
               /\ UNCHANGED <<iso_open, lib_refs>>
    /\ UNCHANGED <<lock, cmd, left, dev_open, can_open, pre_can_open>>
    /\ UNCHANGED <<fieldvars, workervars, histvars, nonconnvars>>
    /\ UNCHANGED <<concurrent, filters, mgr_ecus, status, swap>>

\* The locals of connect that are live at the filter installation, in the
\* order their drop glue runs when a `?` returns: channel, device, lib.
ConnectLocalsLeakChannel == <<"device", "lib">>

ConnectLocals == <<"local_channel", "device", "lib">>

\* connect: the four setup_iso15765_filter calls, then the Connection is
\* stored; on failure the locals channel, device and lib are dropped.
ConnectFilters(t) ==
    /\ ~crashed
    /\ pc[t] = "connect_filters"
    /\ \E ok \in BOOLEAN :
          IF ok
          THEN /\ connected' = TRUE
               /\ channel' = TRUE
               /\ filters' = ConnectFilterList
               /\ can_channel' = FALSE
               /\ mgr' = FALSE
               /\ handle' = FALSE
               /\ retval' = [retval EXCEPT ![t] = "Ok"]
               /\ Goto(t, "ret")
               /\ UNCHANGED <<todo, cont>>
          ELSE /\ todo' = [todo EXCEPT ![t] = ConnectLocals]
               /\ cont' = [cont EXCEPT ![t] = "ret"]
               /\ retval' = [retval EXCEPT ![t] = "Err: PassThruStartMsgFilter failed"]
               /\ Goto(t, "drop")
               /\ UNCHANGED <<fieldvars, filters>>
    /\ UNCHANGED <<lock, cmd, left>>
    /\ UNCHANGED <<adaptervars, workervars, histvars, nonconnvars>>
    /\ UNCHANGED <<concurrent, mgr_ecus, status, swap>>

\* disconnect: `*conn = None` hands the Connection to its drop glue.
Disconnect(t) ==
    /\ ~crashed
    /\ pc[t] = "disconnect"
    /\ retval' = [retval EXCEPT ![t] = "Ok"]
    /\ IF ~connected
       THEN Goto(t, "ret") /\ UNCHANGED <<connected, todo, cont>>
       ELSE /\ connected' = FALSE
            /\ todo' = [todo EXCEPT ![t] = DropGlue(DropOrder, mgr)]
            /\ cont' = [cont EXCEPT ![t] = "ret"]
            /\ Goto(t, "drop")
    /\ UNCHANGED <<lock, cmd, left, channel, can_channel, mgr, handle>>
    /\ UNCHANGED <<adaptervars, workervars, histvars, nonconnvars>>
    /\ UNCHANGED <<concurrent, filters, mgr_ecus, status, swap>>

\* toggle_bench_mode up to `conn.can_channel = None`: the old manager is
\* taken, stopped, and dropped at the end of the `if let` (which stops it
\* again); then the raw-CAN channel is dropped.
ToggleBenchMode(t) ==
    /\ ~crashed
    /\ pc[t] = "toggle_bench_mode"
    /\ IF ~connected
       THEN Goto(t, "ret") /\ UNCHANGED <<todo, cont>>
       ELSE /\ todo' = [todo EXCEPT ![t] =
                          (IF mgr THEN StopOps \o ManagerDropOps ELSE << >>)
                          \o <<"can_channel">>]
            /\ cont' = [cont EXCEPT ![t] = "toggle_enable"]
            /\ Goto(t, "drop")
    /\ UNCHANGED <<lock, cmd, left>>
    /\ UNCHANGED <<fieldvars, adaptervars, workervars, histvars, nonconnvars>>
    /\ UNCHANGED <<concurrent, filters, mgr_ecus, status, swap>>
    /\ UNCHANGED retval

\* toggle_bench_mode from `if enabled`.
ToggleEnable(t) ==
    /\ ~crashed
    /\ pc[t] = "toggle_enable"
    /\ Goto(t, "ret")
    /\ IF cmd[t].enabled /\ ecu_ids(cmd[t].ecus) # << >>
       THEN /\ mgr_ecus' = ecu_ids(cmd[t].ecus)
            /\ \E ok \in ConnectOutcomes :
               IF ok
               THEN /\ can_open' = TRUE
                    /\ lib_refs' = lib_refs + 1
                    /\ can_channel' = TRUE
                    /\ running' = TRUE
                    /\ handle' = TRUE
                    /\ mgr' = TRUE
                    /\ wpc' = "settle"
                    /\ widx' = 1
                    /\ late_writes' = 0
               ELSE /\ running' = FALSE
                    /\ handle' = FALSE
                    /\ mgr' = TRUE
                    /\ UNCHANGED <<can_open, lib_refs, can_channel, wpc, widx, late_writes>>
       ELSE UNCHANGED <<can_open, lib_refs, can_channel, running, handle, mgr, wpc, widx,
                        late_writes, mgr_ecus>>
    /\ UNCHANGED <<lock, cmd, todo, cont, left, connected, channel, dev_open, iso_open,
                   pre_can_open, crashed, bad_write>>
    /\ UNCHANGED <<histvars, nonconnvars>>
    /\ UNCHANGED <<concurrent, filters, status, swap>>
    /\ UNCHANGED retval

\* One step of drop glue or of EcuEmulatorManager::stop.
DropStep(t) ==
    /\ ~crashed
    /\ pc[t] = "drop"
    /\ todo[t] # << >>
    /\ LET op == Head(todo[t]) IN
       /\ op = "stop_join" => (handle => JoinReturns(wpc))
       /\ lib_refs' = IF \/ op \in {"lib", "device", "local_channel"}
                          \/ (op = "channel" /\ channel)
                          \/ (op = "can_channel" /\ can_channel)
                       THEN lib_refs - 1 ELSE lib_refs
       /\ dev_open' = IF op = "device" THEN FALSE ELSE dev_open
       /\ iso_open' = IF op \in {"channel", "local_channel"} THEN FALSE ELSE iso_open
       /\ channel' = IF op = "channel" THEN FALSE ELSE channel
       /\ can_open' = IF op = "can_channel" THEN FALSE ELSE can_open
       /\ can_channel' = IF op = "can_channel" THEN FALSE ELSE can_channel
       /\ running' = IF op = "stop_flag" THEN FALSE ELSE running
       /\ handle' = IF op = "stop_join" THEN FALSE ELSE handle
       /\ mgr' = IF op = "mgr_free" THEN FALSE ELSE mgr
       /\ mgr_ecus' = IF op = "mgr_free" THEN << >> ELSE mgr_ecus
       /\ filters' = IF op \in {"channel", "local_channel"} THEN << >> ELSE filters
    /\ todo' = [todo EXCEPT ![t] = Tail(@)]
    /\ IF Len(todo[t]) = 1 THEN Goto(t, cont[t]) ELSE UNCHANGED pc
    /\ UNCHANGED <<lock, cmd, cont, left, connected, pre_can_open, wpc, widx, crashed,
                   late_writes, bad_write>>
    /\ UNCHANGED <<histvars, nonconnvars>>
    /\ UNCHANGED <<concurrent, status, swap>>
    /\ UNCHANGED retval

\* get_bench_mode_status
GetBenchModeStatus(t) ==
    /\ ~crashed
    /\ pc[t] = "get_bench_mode_status"
    /\ status' = IF connected THEN BenchModeStatus(mgr, mgr_ecus) ELSE NoStatus
    /\ Goto(t, "ret")
    /\ UNCHANGED <<lock, cmd, todo, cont, left>>
    /\ UNCHANGED <<fieldvars, adaptervars, workervars, histvars, nonconnvars>>
    /\ UNCHANGED <<concurrent, filters, mgr_ecus, swap>>
    /\ UNCHANGED retval

\* read_ecu_info_inner up to the channel lookup.
ReadEcuInfo(t) ==
    /\ ~crashed
    /\ pc[t] = "read_ecu_info"
    /\ IF ~connected THEN Goto(t, "ret")
       ELSE IF cmd[t].imc /\ mgr THEN Goto(t, "pre_take")
       ELSE Goto(t, "use_channel")
    /\ UNCHANGED <<lock, cmd, todo, cont, left>>
    /\ UNCHANGED <<fieldvars, adaptervars, workervars, histvars, nonconnvars>>
    /\ UNCHANGED <<concurrent, filters, mgr_ecus, status, swap>>
    /\ UNCHANGED retval

\* can_pre_broadcast: `conn.channel.take()`, then connect_can.
PreTake(t) ==
    /\ ~crashed
    /\ pc[t] = "pre_take"
    /\ channel' = FALSE
    /\ iso_open' = TakeCloses(iso_open)
    /\ filters' = << >>
    /\ \E ok \in (IF MayConnectWith(TakeCloses(iso_open), can_open, pre_can_open)
                   THEN BOOLEAN ELSE {FALSE}) :
          IF ok
          THEN /\ pre_can_open' = TRUE
               /\ lib_refs' = lib_refs - (IF channel THEN 1 ELSE 0) + 1
               /\ swap' = <<SwapEv("iso_close"), SwapEv("can_open")>>
               /\ Goto(t, "pre_broadcast")
          ELSE /\ pre_can_open' = FALSE
               /\ lib_refs' = lib_refs - (IF channel THEN 1 ELSE 0)
               /\ swap' = <<SwapEv("iso_close")>>
               /\ Goto(t, "pre_reopen")
    /\ UNCHANGED <<lock, cmd, todo, cont, left, connected, can_channel, mgr, handle,
                   dev_open, can_open>>
    /\ UNCHANGED <<workervars, histvars, nonconnvars>>
    /\ UNCHANGED <<concurrent, mgr_ecus, status>>
    /\ UNCHANGED retval

\* can_pre_broadcast: the 50 broadcast cycles, then `drop(can_ch)`.
PreBroadcast(t) ==
    /\ ~crashed
    /\ pc[t] = "pre_broadcast"
    /\ pre_can_open' = FALSE
    /\ swap' = swap \o <<BroadcastEv, SwapEv("can_close")>>
    /\ lib_refs' = lib_refs - 1
    /\ Goto(t, "pre_reopen")
    /\ UNCHANGED <<lock, cmd, todo, cont, left, dev_open, iso_open, can_open>>
    /\ UNCHANGED <<fieldvars, workervars, histvars, nonconnvars>>
    /\ UNCHANGED <<concurrent, filters, mgr_ecus, status>>
    /\ UNCHANGED retval

\* can_pre_broadcast: connect_iso15765 and the four filters; a failure
\* returns the error with conn.channel still None.
PreReopen(t) ==
    /\ ~crashed
    /\ pc[t] = "pre_reopen"
    /\ \E r \in (IF MayConnect THEN {"ok", "connect_failed", "filter_failed"}
                  ELSE {"connect_failed"}) :
          IF r = "ok"
          THEN /\ iso_open' = TRUE
               /\ lib_refs' = lib_refs + 1
               /\ channel' = TRUE
               /\ filters' = ReopenFilterList
               /\ swap' = swap \o <<SwapEv("iso_open"), SwapEv("config"),
                                     SwapEv("filters")>>
               /\ Goto(t, "use_channel")
          ELSE /\ Goto(t, "ret")
               /\ swap' = IF r = "filter_failed"
                          THEN swap \o <<SwapEv("iso_open"), SwapEv("config")>>
                          ELSE swap
               /\ UNCHANGED <<iso_open, lib_refs, channel, filters>>
    /\ UNCHANGED <<lock, cmd, todo, cont, left, connected, can_channel, mgr, handle,
                   dev_open, can_open, pre_can_open>>
    /\ UNCHANGED <<workervars, histvars, nonconnvars>>
    /\ UNCHANGED <<concurrent, mgr_ecus, status>>
    /\ UNCHANGED retval

\* Every other flow (run_routine, read_did, the scans, read_ccf,
\* compare_ccf): `conn.as_ref().ok_or("Not connected")`.
Flow(t) ==
    /\ ~crashed
    /\ pc[t] = "flow"
    /\ IF ~connected THEN Goto(t, "ret") ELSE Goto(t, "use_channel")
    /\ UNCHANGED <<lock, cmd, todo, cont, left>>
    /\ UNCHANGED <<fieldvars, adaptervars, workervars, histvars, nonconnvars>>
    /\ UNCHANGED <<concurrent, filters, mgr_ecus, status, swap>>
    /\ UNCHANGED retval

\* `conn.channel.as_ref().ok_or("No channel available")`, then the flow's
\* requests.
UseChannel(t) ==
    /\ ~crashed
    /\ pc[t] = "use_channel"
    /\ IF ~channel
       THEN Goto(t, "ret") /\ UNCHANGED left
       ELSE /\ \E n \in 1..MaxExchanges : left' = [left EXCEPT ![t] = n]
            /\ Goto(t, "exchange")
    /\ UNCHANGED <<lock, cmd, todo, cont>>
    /\ UNCHANGED <<fieldvars, adaptervars, workervars, histvars, nonconnvars>>
    /\ UNCHANGED <<concurrent, filters, mgr_ecus, status, swap>>
    /\ UNCHANGED retval

\* send_uds_request: answered by the emulator without touching the channel,
\* or sent on the ISO15765 channel.
ExchangeSend(t) ==
    /\ ~crashed
    /\ pc[t] = "exchange"
    /\ \E emulated \in {FALSE, mgr} :
          IF emulated
          THEN /\ left' = [left EXCEPT ![t] = @ - 1]
               /\ IF left[t] = 1 THEN Goto(t, "ret") ELSE UNCHANGED pc
               /\ UNCHANGED histvars
          ELSE /\ inflight' = t
               /\ interleaved' = (interleaved \/ inflight # 0)
               /\ Goto(t, "exchange_wait")
               /\ UNCHANGED left
    /\ UNCHANGED <<lock, cmd, todo, cont>>
    /\ UNCHANGED <<fieldvars, adaptervars, workervars, nonconnvars>>
    /\ UNCHANGED <<concurrent, filters, mgr_ecus, status, swap>>
    /\ UNCHANGED retval

\* send_uds_request returns: a response, or an error that ends the flow.
ExchangeRecv(t) ==
    /\ ~crashed
    /\ pc[t] = "exchange_wait"
    /\ inflight' = 0
    /\ interleaved' = (interleaved \/ inflight # t)
    /\ left' = [left EXCEPT ![t] = @ - 1]
    /\ \E abort \in BOOLEAN :
          IF abort \/ left[t] = 1 THEN Goto(t, "ret") ELSE Goto(t, "exchange")
    /\ UNCHANGED <<lock, cmd, todo, cont>>
    /\ UNCHANGED <<fieldvars, adaptervars, workervars, nonconnvars>>
    /\ UNCHANGED <<concurrent, filters, mgr_ecus, status, swap>>
    /\ UNCHANGED retval

\* ------------------------------------ broadcast_loop (ecu_emulator.rs)
\* thread::sleep(100 ms) before the loop.
WorkerSettle ==
    /\ ~crashed
    /\ wpc = "settle"
    /\ wpc' = "while"
    /\ UNCHANGED <<running, widx, crashed, late_writes, bad_write>>
    /\ UNCHANGED <<thrvars, fieldvars, adaptervars, histvars, nonconnvars>>
    /\ UNCHANGED <<concurrent, filters, mgr_ecus, status, swap>>
    /\ UNCHANGED retval

\* `while running.load(Ordering::Relaxed)`
WorkerWhile ==
    /\ ~crashed
    /\ wpc = "while"
    /\ IF running THEN wpc' = "for" /\ widx' = 1 ELSE wpc' = "exited" /\ widx' = widx
    /\ UNCHANGED <<running, crashed, late_writes, bad_write>>
    /\ UNCHANGED <<thrvars, fieldvars, adaptervars, histvars, nonconnvars>>
    /\ UNCHANGED <<concurrent, filters, mgr_ecus, status, swap>>
    /\ UNCHANGED retval

\* The head of `for ... in BROADCAST_MSGS` and the flag test of its body.
WorkerFor ==
    /\ ~crashed
    /\ wpc = "for"
    /\ IF widx <= NumBroadcast /\ ForContinues(running)
       THEN wpc' = "write"
       ELSE wpc' = "sleep"
    /\ UNCHANGED <<running, widx, crashed, late_writes, bad_write>>
    /\ UNCHANGED <<thrvars, fieldvars, adaptervars, histvars, nonconnvars>>
    /\ UNCHANGED <<concurrent, filters, mgr_ecus, status, swap>>
    /\ UNCHANGED retval

\* `(fns.write_msgs)(can_channel_id, &msg, &mut num_msgs, 50)`: a call
\* through the raw function pointer.  On a closed channel the adapter
\* returns an error, which is discarded; with the library unloaded the
\* pointer dangles and the call either returns or kills the process.
WorkerWrite ==
    /\ ~crashed
    /\ wpc = "write"
    /\ late_writes' = late_writes + (IF running THEN 0 ELSE 1)
    /\ bad_write' = (bad_write \/ ~can_open \/ lib_refs = 0)
    /\ \E dies \in {FALSE, lib_refs = 0} :
          IF dies
          THEN crashed' = TRUE /\ UNCHANGED <<wpc, widx>>
          ELSE crashed' = FALSE /\ wpc' = "for" /\ widx' = widx + 1
    /\ UNCHANGED running
    /\ UNCHANGED <<thrvars, fieldvars, adaptervars, histvars, nonconnvars>>
    /\ UNCHANGED <<concurrent, filters, mgr_ecus, status, swap>>
    /\ UNCHANGED retval

\* thread::sleep(100 ms) at the end of a cycle.
WorkerSleep ==
    /\ ~crashed
    /\ wpc = "sleep"
    /\ wpc' = "while"
    /\ UNCHANGED <<running, widx, crashed, late_writes, bad_write>>
    /\ UNCHANGED <<thrvars, fieldvars, adaptervars, histvars, nonconnvars>>
    /\ UNCHANGED <<concurrent, filters, mgr_ecus, status, swap>>
    /\ UNCHANGED retval

WorkerNext == WorkerSettle \/ WorkerWhile \/ WorkerFor \/ WorkerWrite \/ WorkerSleep

WorkerAlive == wpc \notin {"none", "exited"} /\ ~crashed

\* ------------------------------------------- the ECU emulator (ecu_emulator.rs)

tx_id(ecu) ==
    CASE ecu = "bcm" -> BCM_TX
      [] ecu = "gwm" -> GWM_TX
      [] ecu = "ipc" -> IPC_TX

\* Option<Vec<u8>>
None == [some |-> FALSE, bytes |-> << >>]
Some(b) == [some |-> TRUE, bytes |-> b]

\* `part.resize(24, 0x00)`
Resize24(part) == part \o [i \in 1..(24 - Len(part)) |-> 0]

\* The inner `match did` of BcmHandler::build_response, keyed by the two DID
\* bytes; the entries are the data that follows 62 hi lo.
BcmDidTable ==
    << <<241, 144, <<83, 65, 74, 66, 76, 52, 66, 86, 88, 71, 67, 89, 49, 54, 51, 53, 51>> >>,
       <<241, 136, Resize24(<<71, 88, 55, 51, 45, 49, 52, 67, 49, 56, 52, 45, 65, 75>>)>>,
       <<241, 140, <<49, 57, 55, 57, 49, 52, 57, 56, 48, 56>> >>,
       <<241, 19, Resize24(<<71, 88, 55, 51, 45, 49, 52, 70, 48, 52, 49, 45, 65, 75>>)>>,
       <<64, 171, <<4>> >>,
       <<64, 222, <<1>> >>,
       <<65, 221, <<0>> >>,
       <<161, 18, <<31, 255, 255, 31>> >>,
       <<193, 36, <<108, 4, 108, 4>> >>,
       <<193, 144, <<128, 0, 125, 108>> >>,
       <<209, 52, <<0>> >>,
       <<221, 1, <<3, 95, 184>> >>,
       <<221, 6, <<103>> >>,
       <<222, 2, <<255, 255, 255, 255, 255, 255, 255, 255>> >>,
       <<222, 3, <<255, 255, 255, 255, 255, 255, 255, 255>> >> >>

BcmReadDid(hi, lo) ==
    IF \E i \in 1..Len(BcmDidTable) : BcmDidTable[i][1] = hi /\ BcmDidTable[i][2] = lo
    THEN LET i == CHOOSE j \in 1..Len(BcmDidTable) :
                      BcmDidTable[j][1] = hi /\ BcmDidTable[j][2] = lo
         IN Some(<<98, hi, lo>> \o BcmDidTable[i][3])
    ELSE Some(<<127, 34, 49>>)

\* BcmHandler::build_response: the arms of `match request`, first match wins.
BcmStatefulSeed(req) ==
    IF Len(req) >= 2 /\ req[1] = 62 /\ req[2] = 0 THEN Some(<<126, 0>>)
    ELSE IF Len(req) >= 2 /\ req[1] = 16 THEN Some(<<80, req[2], 0, 25, 1, 244>>)
    ELSE IF Len(req) >= 2 /\ req[1] = 17 THEN Some(<<81, req[2]>>)
    ELSE IF Len(req) >= 3 /\ req[1] = 34 THEN BcmReadDid(req[2], req[3])
    ELSE IF Len(req) >= 2 /\ req[1] = 39
         THEN (IF e_handled = 0 THEN Some(<<103, req[2], 18, 52, 86>>)
               ELSE Some(<<103, req[2], 0, 0, 0>>))
    ELSE IF Len(req) >= 2 /\ req[1] = 40 THEN Some(<<104, req[2]>>)
    ELSE IF Len(req) >= 3 /\ req[1] = 46 THEN Some(<<110, req[2], req[3]>>)
    ELSE IF Len(req) >= 4 /\ req[1] = 49 THEN Some(<<113, req[2], req[3], req[4]>>)
    ELSE IF Len(req) >= 1 THEN Some(<<127, req[1], 17>>)
    ELSE None

BcmEchoesDidService(req) ==
    IF Len(req) >= 2 /\ req[1] = 62 /\ req[2] = 0 THEN Some(<<126, 0>>)
    ELSE IF Len(req) >= 2 /\ req[1] = 16 THEN Some(<<80, req[2], 0, 25, 1, 244>>)
    ELSE IF Len(req) >= 2 /\ req[1] = 17 THEN Some(<<81, req[2]>>)
    ELSE IF Len(req) >= 3 /\ req[1] = 34 THEN BcmReadDid(req[2], req[3])
    ELSE IF Len(req) >= 2 /\ req[1] = 39 THEN Some(<<103, req[2], 0, 0, 0>>)
    ELSE IF Len(req) >= 2 /\ req[1] = 40 THEN Some(<<104, req[2]>>)
    ELSE IF Len(req) >= 3 /\ req[1] = 46 THEN Some(<<98, req[2], req[3]>>)
    ELSE IF Len(req) >= 4 /\ req[1] = 49 THEN Some(<<113, req[2], req[3], req[4]>>)
    ELSE IF Len(req) >= 1 THEN Some(<<127, req[1], 17>>)
    ELSE None

BcmNoRoutineArm(req) ==
    IF Len(req) >= 2 /\ req[1] = 62 /\ req[2] = 0 THEN Some(<<126, 0>>)
    ELSE IF Len(req) >= 2 /\ req[1] = 16 THEN Some(<<80, req[2], 0, 25, 1, 244>>)
    ELSE IF Len(req) >= 2 /\ req[1] = 17 THEN Some(<<81, req[2]>>)
    ELSE IF Len(req) >= 3 /\ req[1] = 34 THEN BcmReadDid(req[2], req[3])
    ELSE IF Len(req) >= 2 /\ req[1] = 39 THEN Some(<<103, req[2], 0, 0, 0>>)
    ELSE IF Len(req) >= 2 /\ req[1] = 40 THEN Some(<<104, req[2]>>)
    ELSE IF Len(req) >= 3 /\ req[1] = 46 THEN Some(<<110, req[2], req[3]>>)
    ELSE IF Len(req) >= 1 THEN Some(<<127, req[1], 17>>)
    ELSE None

BcmHandler_build_response(req) ==
    IF Len(req) >= 2 /\ req[1] = 62 /\ req[2] = 0 THEN Some(<<126, 0>>)
    ELSE IF Len(req) >= 2 /\ req[1] = 16 THEN Some(<<80, req[2], 0, 25, 1, 244>>)
    ELSE IF Len(req) >= 2 /\ req[1] = 17 THEN Some(<<81, req[2]>>)
    ELSE IF Len(req) >= 3 /\ req[1] = 34 THEN BcmReadDid(req[2], req[3])
    ELSE IF Len(req) >= 2 /\ req[1] = 39 THEN Some(<<103, req[2], 0, 0, 0>>)
    ELSE IF Len(req) >= 2 /\ req[1] = 40 THEN Some(<<104, req[2]>>)
    ELSE IF Len(req) >= 3 /\ req[1] = 46 THEN Some(<<110, req[2], req[3]>>)
    ELSE IF Len(req) >= 4 /\ req[1] = 49 THEN Some(<<113, req[2], req[3], req[4]>>)
    ELSE IF Len(req) >= 1 THEN Some(<<127, req[1], 17>>)
    ELSE None

GwmHandler_build_response(req) ==
    IF Len(req) >= 2 /\ req[1] = 62 /\ req[2] = 0 THEN Some(<<126, 0>>)
    ELSE IF Len(req) >= 2 /\ req[1] = 16 THEN Some(<<80, req[2], 0, 25, 1, 244>>)
    ELSE IF Len(req) >= 2 /\ req[1] = 39 THEN Some(<<103, req[2], 0, 0, 0>>)
    ELSE IF Len(req) >= 1 THEN Some(<<127, req[1], 17>>)
    ELSE None

IpcHandler_build_response(req) ==
    IF Len(req) >= 2 /\ req[1] = 62 /\ req[2] = 0 THEN Some(<<126, 0>>)
    ELSE IF Len(req) >= 2 /\ req[1] = 16 THEN Some(<<80, req[2], 0, 25, 1, 244>>)
    ELSE IF Len(req) >= 2 /\ req[1] = 39 THEN Some(<<103, req[2], 0, 0, 0>>)
    ELSE IF Len(req) >= 1 THEN Some(<<127, req[1], 17>>)
    ELSE None

\* create_handler(ecu).build_response(request)
create_handler(ecu, req) ==
    CASE ecu = "bcm" -> BcmHandler_build_response(req)
      [] ecu = "gwm" -> GwmHandler_build_response(req)
      [] ecu = "ipc" -> IpcHandler_build_response(req)

\* EcuEmulatorManager::try_handle: the first emulated ECU whose tx_id matches.
try_handle(ecus, tx, req) ==
    IF \E i \in 1..Len(ecus) : tx_id(ecus[i]) = tx
    THEN LET i == CHOOSE j \in 1..Len(ecus) :
                      /\ tx_id(ecus[j]) = tx
                      /\ \A k \in 1..(j - 1) : tx_id(ecus[k]) # tx
         IN create_handler(ecus[i], req)
    ELSE None

\* send_uds_request went on to the busy-retry loop on the channel.
ViaChannel == [kind |-> "channel", sid |-> 0, nrc |-> 0, data |-> << >>]

\* The head of send_uds_request: `if let Some(emu) = emulator { if let
\* Some(response) = emu.try_handle(tx_id, request) { ... } }`.
ShortCircuitAnySeven(r) ==
    IF r.bytes[1] = NEGATIVE_RESPONSE /\ Len(r.bytes) >= 3 /\ r.bytes[3] # 49
    THEN ErrNrc(r.bytes[2], r.bytes[3])
    ELSE Ok(r.bytes)

ShortCircuit(r) ==
    IF r.bytes[1] = NEGATIVE_RESPONSE /\ Len(r.bytes) >= 3
    THEN ErrNrc(r.bytes[2], r.bytes[3])
    ELSE Ok(r.bytes)

\* The requests a run can build: a service id, then up to MaxReqLen - 1
\* further bytes.
EmuSids == {16, 17, 34, 39, 40, 46, 49, 62, 153}
EmuBytes == {0, 241, 144}
EmuTxIds == {IMC_TX, BCM_TX, GWM_TX, IPC_TX}
EmuLists == { <<"bcm">>, <<"gwm">>, <<"gwm", "ipc">>, <<"ipc", "bcm", "gwm">> }
EmuProbes == { <<BCM_TX, <<34, 241, 144>> >>, <<BCM_TX, <<39, 0>> >>, <<GWM_TX, <<49, 0, 241, 144>> >> }

\* No probe chosen yet: the emulator argument of the run is not fixed.
NoProbe == <<0, << >> >>

EmuInit ==
    /\ e_pc = "idle"
    /\ e_ecus = << >>
    /\ e_attached = FALSE
    /\ e_tx = IMC_TX
    /\ e_req = << >>
    /\ e_reply = None
    /\ e_out = NoResult
    /\ e_chan_ops = 0
    /\ e_handled = 0
    /\ e_probe = NoProbe
    /\ e_probe_reply = None
    /\ e_probe_hits = 0

\* The `emulator` argument the callers pass for the rest of the run: None,
\* or a manager built by EcuEmulatorManager::new with a list of ECUs.
EmuNew ==
    /\ e_probe = NoProbe
    /\ \E l \in EmuLists \cup {<< >>} :
          /\ e_ecus' = l
          /\ e_attached' = (l # << >>)
    /\ e_probe' \in EmuProbes
    /\ UNCHANGED <<e_pc, e_tx, e_req, e_reply, e_out, e_chan_ops, e_handled, e_probe_reply,
                   e_probe_hits>>
    /\ UNCHANGED nonemuvars

\* A caller starts a send_uds_request for some ECU address.
EmuCall ==
    /\ e_probe # NoProbe
    /\ e_pc \in {"idle", "done"}
    /\ e_tx' \in EmuTxIds
    /\ e_req' = << >>
    /\ e_pc' = "build"
    /\ e_reply' = None
    /\ e_out' = NoResult
    /\ e_chan_ops' = 0
    /\ UNCHANGED <<e_attached, e_ecus, e_handled, e_probe, e_probe_reply, e_probe_hits>>
    /\ UNCHANGED nonemuvars

\* The caller assembles the request, byte by byte.
EmuByte ==
    /\ e_pc = "build"
    /\ Len(e_req) < MaxReqLen
    /\ \E b \in (IF e_req = << >> THEN EmuSids ELSE EmuBytes) : e_req' = Append(e_req, b)
    /\ UNCHANGED <<e_pc, e_attached, e_ecus, e_tx, e_reply, e_out, e_chan_ops, e_handled,
                   e_probe, e_probe_reply, e_probe_hits>>
    /\ UNCHANGED nonemuvars

\* send_uds_request up to `let max_busy_retries`: the emulator answers, or
\* the request goes to the channel.
EmuSendUdsRequest ==
    /\ e_pc = "build"
    /\ Len(e_req) >= 1
    /\ LET r == IF e_attached THEN try_handle(e_ecus, e_tx, e_req) ELSE None
           probed == r.some /\ <<e_tx, e_req>> = e_probe
       IN /\ e_reply' = r
          /\ e_out' = IF r.some THEN ShortCircuit(r) ELSE ViaChannel
          /\ e_chan_ops' = IF r.some THEN 0 ELSE 1
          /\ e_handled' = IF r.some /\ e_handled < 3 THEN e_handled + 1 ELSE e_handled
          /\ e_probe_reply' = IF probed /\ e_probe_hits = 0 THEN r ELSE e_probe_reply
          /\ e_probe_hits' = IF probed /\ e_probe_hits < 2 THEN e_probe_hits + 1
                             ELSE e_probe_hits
    /\ e_pc' = "done"
    /\ UNCHANGED <<e_attached, e_ecus, e_tx, e_req, e_probe>>
    /\ UNCHANGED nonemuvars

\* ------------------------------------------ key engine (uds/keygen.rs)
\* u32 arithmetic on values that stay below 2^24; the two 32-bit words the
\* loops scan (sknum7 and fc) are held as their four bytes, low byte first.
Shr(x, n) == x \div (2 ^ n)
Shl(x, n) == x * (2 ^ n)

RECURSIVE BitAnd(_, _)
BitAnd(a, b) ==
    IF a = 0 \/ b = 0 THEN 0
    ELSE (a % 2) * (b % 2) + 2 * BitAnd(a \div 2, b \div 2)

RECURSIVE BitOr(_, _)
BitOr(a, b) ==
    IF a = 0 THEN b
    ELSE IF b = 0 THEN a
    ELSE (IF a % 2 = 1 \/ b % 2 = 1 THEN 1 ELSE 0) + 2 * BitOr(a \div 2, b \div 2)

RECURSIVE BitXor(_, _)
BitXor(a, b) ==
    IF a = 0 THEN b
    ELSE IF b = 0 THEN a
    ELSE ((a + b) % 2) + 2 * BitXor(a \div 2, b \div 2)

\* word >> i & 1
WordBit(word, i) == Shr(word[(i \div 8) + 1], i % 8) % 2

DC0314_CONSTANTS == <<101, 248, 36, 172, 143>>

\* The shift without the five feedback taps.
KeyStepNoTaps(sknum8, bit) ==
    BitOr(Shl(BitXor(bit, BitAnd(sknum8, 1)), 23), Shr(sknum8, 1))

\* One iteration of either loop of keygen_mki.
KeyStep(sknum8, bit) ==
    LET sknum10 == BitOr(Shl(BitXor(bit, BitAnd(sknum8, 1)), 23), Shr(sknum8, 1))
        old == Shr(sknum8, 1)
        hb == Shr(BitAnd(sknum10, 8388608), 23)
    IN  BitOr(BitAnd(sknum10, 15691735),
        BitOr(Shl(BitXor(Shr(BitAnd(sknum10, 1048576), 20), hb), 20),
        BitOr(Shl(BitXor(Shr(BitAnd(old, 32768), 15), hb), 15),
        BitOr(Shl(BitXor(Shr(BitAnd(old, 4096), 12), hb), 12),
        BitOr(32 * BitXor(Shr(BitAnd(old, 32), 5), hb),
              8 * BitXor(Shr(BitAnd(old, 8), 3), hb))))))

RECURSIVE KeyLoop(_, _, _)
KeyLoop(sknum8, word, i) ==
    IF i = 32 THEN sknum8
    ELSE LET next == KeyStep(sknum8, WordBit(word, i))
         IN  IF next >= 0 THEN KeyLoop(next, word, i + 1) ELSE next

keygen_mki(seed, constants) ==
    LET sknum13 == BitAnd(Shr(seed, 16), 255)
        b2 == BitAnd(Shr(seed, 8), 255)
        b3 == BitAnd(seed, 255)
        sknum7 == <<sknum13, b2, b3, constants[1]>>
        fc == <<constants[2], constants[3], constants[4], constants[5]>>
        sknum8 == KeyLoop(KeyLoop(12927401, sknum7, 0), fc, 0)
        r == BitOr(Shr(BitAnd(sknum8, 983040), 16),
             BitOr(16 * BitAnd(sknum8, 15),
             BitOr(Shl(BitOr(Shr(BitAnd(sknum8, 15728640), 20),
                             Shr(BitAnd(sknum8, 61440), 8)), 8),
                   Shl(Shr(BitAnd(sknum8, 4080), 4), 16))))
    IN  BitAnd(r, 16777215)

\* ------------------------------------------------ SDD prerequisite flow
\* run_routine_inner (commands.rs) and execute_routine_sdd (uds/services.rs):
\* tester-present, extended session, security access, routine start.  Each
\* step is one request handed to the transport together with its outcome.
SSH_ENABLE == 24638
ENG_SCREEN_LVL2 == 24637
VIN_LEARN == 1028
RETRIEVE_CCF == 3584

\* list_routines, the rows of the routines used here.
list_routines ==
    { [routine_id |-> SSH_ENABLE, needs_security |-> TRUE, needs_pending |-> TRUE],
      [routine_id |-> ENG_SCREEN_LVL2, needs_security |-> TRUE, needs_pending |-> FALSE],
      [routine_id |-> VIN_LEARN, needs_security |-> FALSE, needs_pending |-> FALSE],
      [routine_id |-> RETRIEVE_CCF, needs_security |-> FALSE, needs_pending |-> TRUE] }

find_routine_meta(routine_id) == {r \in list_routines : r.routine_id = routine_id}

\* meta.as_ref().map_or(false, |m| m.needs_security)
MetaNeedsSecurity(routine_id) ==
    \E r \in find_routine_meta(routine_id) : r.needs_security

MetaNeedsPending(routine_id) ==
    \E r \in find_routine_meta(routine_id) : r.needs_pending

\* Routine ids a caller passes: catalogued ones and one that is not (0x1234).
SddRoutines == {SSH_ENABLE, ENG_SCREEN_LVL2, VIN_LEARN, RETRIEVE_CCF, 4660}
SddData == {<< >>, <<1>>}

\* What the transport returns for one request: the positive response, or an
\* error (negative response, timeout).
SddOutcomes == {"ok", "nrc", "timeout"}

\* Positive responses to 27 11: the transport has checked byte 0 only.
SeedResponses ==
    { <<103>>, <<103, 17>>, <<103, 17, 0, 0>>, <<103, 17, 0, 0, 0>>,
      <<103, 17, 0, 0, 0, 9>>, <<103, 17, 0, 0, 1>>, <<103, 17, 17, 34, 51>> }

NoReturn == [kind |-> "none", step |-> "", cause |-> ""]
SddErr(step, cause) == [kind |-> "Err", step |-> step, cause |-> cause]
SddOk == [kind |-> "Ok", step |-> "routine", cause |-> "ok"]

\* ((seed[0] as u32) << 16) | ((seed[1] as u32) << 8) | (seed[2] as u32)
seed_int(seed_resp) ==
    BitOr(Shl(seed_resp[3], 16), BitOr(Shl(seed_resp[4], 8), seed_resp[5]))

key_bytes(key_int) ==
    <<BitAnd(Shr(key_int, 16), 255), BitAnd(Shr(key_int, 8), 255), BitAnd(key_int, 255)>>

key_request(seed_resp) ==
    <<39, 18>> \o key_bytes(keygen_mki(seed_int(seed_resp), DC0314_CONSTANTS))

routine_request(routine_id, data) ==
    <<49, 1, Shr(routine_id, 8) % 256, BitAnd(routine_id, 255)>> \o data

\* commands.rs: if seed_resp.len() >= 5 { ... if seed_int != 0 { send key } }
NeedsKeyAnySeed(seed_resp) == Len(seed_resp) >= 5

NeedsKey(seed_resp) == Len(seed_resp) >= 5 /\ seed_int(seed_resp) # 0

\* uds/services.rs: security_request_seed and security_access after the seed
\* response arrived.
security_access(seed_response) ==
    IF Len(seed_response) < 2 THEN "seed_too_short"
    ELSE IF Len(seed_response) < 5 THEN "too_short"
    ELSE IF seed_int(seed_response) = 0 THEN "already_unlocked"
    ELSE "send_key"

\* The `?` after each request: an error returns from the flow.
TryIgnoresError(outcome, next) == next

Try(outcome, next) == IF outcome = "ok" THEN next ELSE "done"

FailedAt(outcome) ==
    IF outcome = "ok" \/ s_failed_at # 0 THEN s_failed_at ELSE Len(s_sent) + 1

SddInit ==
    /\ s_pc = "idle"
    /\ s_impl = "commands"
    /\ s_routine = SSH_ENABLE
    /\ s_data = << >>
    /\ s_needs_security = FALSE
    /\ s_needs_pending = FALSE
    /\ s_seed_resp = << >>
    /\ s_result = NoReturn
    /\ s_sent = << >>
    /\ s_failed_at = 0
    /\ s_keygen_runs = 0

\* run_routine_inner looks the flags up; execute_routine_sdd takes them as
\* arguments.
SddCall ==
    /\ s_pc \in {"idle", "done"}
    /\ \E impl \in {"commands", "services"}, rid \in SddRoutines, d \in SddData,
          sec \in BOOLEAN, pend \in BOOLEAN :
         /\ impl = "commands" => /\ sec = MetaNeedsSecurity(rid)
                                 /\ pend = MetaNeedsPending(rid)
         /\ s_impl' = impl
         /\ s_routine' = rid
         /\ s_data' = d
         /\ s_needs_security' = sec
         /\ s_needs_pending' = pend
    /\ s_pc' = "tp"
    /\ s_seed_resp' = << >>
    /\ s_result' = NoReturn
    /\ s_sent' = << >>
    /\ s_failed_at' = 0
    /\ s_keygen_runs' = 0
    /\ UNCHANGED nonsddvars

SddTesterPresent ==
    /\ s_pc = "tp"
    /\ \E o \in SddOutcomes :
         /\ s_sent' = Append(s_sent, <<62, 0>>)
         /\ s_failed_at' = FailedAt(o)
         /\ s_result' = IF o = "ok" THEN s_result ELSE SddErr("TesterPresent", o)
         /\ s_pc' = Try(o, "session")
    /\ UNCHANGED <<s_impl, s_routine, s_data, s_needs_security, s_needs_pending,
                   s_seed_resp, s_keygen_runs>>
    /\ UNCHANGED nonsddvars

SddSession ==
    /\ s_pc = "session"
    /\ \E o \in SddOutcomes :
         /\ s_sent' = Append(s_sent, <<16, 3>>)
         /\ s_failed_at' = FailedAt(o)
         /\ s_result' = IF o = "ok" THEN s_result ELSE SddErr("Extended session", o)
         /\ s_pc' = Try(o, IF s_needs_security THEN "seed" ELSE "routine")
    /\ UNCHANGED <<s_impl, s_routine, s_data, s_needs_security, s_needs_pending,
                   s_seed_resp, s_keygen_runs>>
    /\ UNCHANGED nonsddvars

\* 27 11 and what follows the seed response up to the next request.
SddSeed ==
    /\ s_pc = "seed"
    /\ s_sent' = Append(s_sent, <<39, 17>>)
    /\ \/ \E o \in SddOutcomes \ {"ok"} :
            /\ s_failed_at' = FailedAt(o)
            /\ s_result' = SddErr("Security seed request", o)
            /\ s_pc' = Try(o, "routine")
            /\ UNCHANGED s_seed_resp
       \/ \E resp \in SeedResponses :
            /\ s_seed_resp' = resp
            /\ IF s_impl = "commands"
               THEN /\ s_pc' = IF NeedsKey(resp) THEN "key" ELSE "routine"
                    /\ UNCHANGED <<s_failed_at, s_result>>
               ELSE LET a == security_access(resp) IN
                    /\ s_pc' = CASE a = "send_key" -> "key"
                                 [] a = "already_unlocked" -> "routine"
                                 [] OTHER -> Try(a, "routine")
                    /\ s_failed_at' = IF a \in {"seed_too_short", "too_short"}
                                      THEN FailedAt(a) ELSE s_failed_at
                    /\ s_result' = IF a \in {"seed_too_short", "too_short"}
                                   THEN SddErr("Security seed request", a)
                                   ELSE s_result
    /\ UNCHANGED <<s_impl, s_routine, s_data, s_needs_security, s_needs_pending,
                   s_keygen_runs>>
    /\ UNCHANGED nonsddvars

\* keygen_mki, then 27 12 with the three key bytes.
SddKey ==
    /\ s_pc = "key"
    /\ s_keygen_runs' = s_keygen_runs + 1
    /\ s_sent' = Append(s_sent, key_request(s_seed_resp))
    /\ \E o \in SddOutcomes :
         /\ s_failed_at' = FailedAt(o)
         /\ s_result' = IF o = "ok" THEN s_result ELSE SddErr("Security key send", o)
         /\ s_pc' = Try(o, "routine")
    /\ UNCHANGED <<s_impl, s_routine, s_data, s_needs_security, s_needs_pending,
                   s_seed_resp>>
    /\ UNCHANGED nonsddvars

\* 31 01 rid data, the request the flow was a prerequisite of.
SddRoutine ==
    /\ s_pc = "routine"
    /\ s_sent' = Append(s_sent, routine_request(s_routine, s_data))
    /\ \E o \in SddOutcomes :
         /\ s_failed_at' = FailedAt(o)
         /\ s_result' = IF o = "ok" THEN SddOk ELSE SddErr("Routine", o)
    /\ s_pc' = "done"
    /\ UNCHANGED <<s_impl, s_routine, s_data, s_needs_security, s_needs_pending,
                   s_seed_resp, s_keygen_runs>>
    /\ UNCHANGED nonsddvars

\* --------------------------------------------- per-ECU info reads
\* read_imc_info, read_bcm_info, read_gwm_info and read_ipc_info
\* (commands.rs), one step per request handed to send_uds_request.
VIN == 61840
MASTER_RPM_PART == 61832
V850_PART == 61728
POLAR_PART == 61861
ECU_SERIAL == 61836
ECU_SERIAL2 == 61715
ACTIVE_DIAG_SESSION == 53504
IMC_STATUS == 514
BATTERY_VOLTAGE == 16426
BATTERY_SOC == 16424
BATTERY_TEMP == 16425
ODOMETER == 25019
POLL_ATTEMPTS == 15
POLL_SLEEP_S == 1

\* The DIDs each read asks for, in the order of the code.
InfoDids(ecu) ==
    CASE ecu = "imc" -> <<ACTIVE_DIAG_SESSION, VIN, MASTER_RPM_PART, V850_PART, POLAR_PART,
                          ECU_SERIAL, ECU_SERIAL2, IMC_STATUS>>
      [] ecu = "bcm" -> <<VIN, MASTER_RPM_PART, ECU_SERIAL, ECU_SERIAL2>>
      [] ecu = "gwm" -> <<VIN, MASTER_RPM_PART, BATTERY_VOLTAGE, BATTERY_SOC, BATTERY_TEMP>>
      [] ecu = "ipc" -> <<VIN, MASTER_RPM_PART, ODOMETER>>

\* send_read_did: vec![0x22, (did_id >> 8) as u8, (did_id & 0xFF) as u8]
read_did_request(did_id) == <<34, Shr(did_id, 8) % 256, BitAnd(did_id, 255)>>

\* What send_read_did returns: the data, or the error of send_uds_request.
DidOutcomes == {"ok", "NRC 0x7F", "Timeout"}

\* EcuInfoEntry, with value and error as has-value flag and message.
\* read_did_entry: Ok gives a value and no error, Err the error and no value.
EcuInfoEntry(did_id, outcome) ==
    [did |-> did_id,
     value |-> (outcome = "ok"),
     error |-> IF outcome = "ok" THEN "" ELSE outcome]

\* `for attempt in 1..=15` goes round again.
PollForever(attempt) == TRUE

PollAgain(attempt) == attempt < POLL_ATTEMPTS

\* read_imc_info sends 3E 00 before every DID of its loop and before 0x0202;
\* the other reads send none.
TpBefore(ecu, idx) == ecu = "imc" /\ idx \in 2..7

\* The 10 03 of read_imc_info placed straight after the D100 read.
AfterDidExtendedFirst(ecu, idx) ==
    IF idx = Len(InfoDids(ecu)) THEN "done"
    ELSE IF ecu = "imc" /\ idx = 1 THEN "ext"
    ELSE IF TpBefore(ecu, idx + 1) THEN "tp"
    ELSE "did"

\* Where the read goes after the DID at idx of the ECU's list.
AfterDid(ecu, idx) ==
    IF idx = Len(InfoDids(ecu)) THEN "done"
    ELSE IF ecu = "imc" /\ idx = 7 THEN "ext"
    ELSE IF TpBefore(ecu, idx + 1) THEN "tp"
    ELSE "did"

InfoInit ==
    /\ i_pc = "idle"
    /\ i_ecu = "imc"
    /\ i_bench = FALSE
    /\ i_attempt = 1
    /\ i_idx = 1
    /\ i_ext = "none"
    /\ i_entries = << >>
    /\ i_reqs = << >>
    /\ i_poll_oks = 0
    /\ i_slept_s = 0

\* read_ecu_info_inner dispatches on `ecu`.
InfoCall ==
    /\ i_pc \in {"idle", "done"}
    /\ \E e \in {"imc", "bcm", "gwm", "ipc"}, b \in BOOLEAN :
         /\ i_ecu' = e
         /\ i_bench' = b
         /\ i_pc' = IF e = "imc" THEN (IF b THEN "poll" ELSE "tp") ELSE "did"
    /\ i_attempt' = 1
    /\ i_idx' = 1
    /\ i_ext' = "none"
    /\ i_entries' = << >>
    /\ i_reqs' = << >>
    /\ i_poll_oks' = 0
    /\ i_slept_s' = 0
    /\ UNCHANGED noninfovars

\* One round of the bench-mode poll loop of read_imc_info, and the return
\* of the single status row when the last round failed.
InfoPoll ==
    /\ i_pc = "poll"
    /\ i_reqs' = Append(i_reqs, <<62, 0>>)
    /\ \E ok \in BOOLEAN :
         IF ok
         THEN /\ i_poll_oks' = i_poll_oks + 1
              /\ i_pc' = "did"
              /\ UNCHANGED <<i_attempt, i_slept_s, i_entries>>
         ELSE IF PollAgain(i_attempt)
         THEN /\ i_slept_s' = i_slept_s + POLL_SLEEP_S
              /\ i_attempt' = i_attempt + 1
              /\ UNCHANGED <<i_pc, i_poll_oks, i_entries>>
         ELSE /\ i_entries' = <<[did |-> IMC_STATUS, value |-> FALSE,
                                  error |-> "IMC not responding"]>>
              /\ i_pc' = "done"
              /\ UNCHANGED <<i_attempt, i_slept_s, i_poll_oks>>
    /\ UNCHANGED <<i_ecu, i_bench, i_idx, i_ext>>
    /\ UNCHANGED noninfovars

\* `let _ = send_uds_request(.., &[0x3E, 0x00], ..)`: the result is dropped.
InfoTesterPresent ==
    /\ i_pc = "tp"
    /\ i_reqs' = Append(i_reqs, <<62, 0>>)
    /\ i_pc' = "did"
    /\ UNCHANGED <<i_ecu, i_bench, i_attempt, i_idx, i_ext, i_entries, i_poll_oks, i_slept_s>>
    /\ UNCHANGED noninfovars

\* read_did_entry for the DID at i_idx.
InfoReadDid ==
    /\ i_pc = "did"
    /\ i_reqs' = Append(i_reqs, read_did_request(InfoDids(i_ecu)[i_idx]))
    /\ \E o \in DidOutcomes :
         i_entries' = Append(i_entries, EcuInfoEntry(InfoDids(i_ecu)[i_idx], o))
    /\ i_pc' = AfterDid(i_ecu, i_idx)
    /\ i_idx' = i_idx + 1
    /\ UNCHANGED <<i_ecu, i_bench, i_attempt, i_ext, i_poll_oks, i_slept_s>>
    /\ UNCHANGED noninfovars

\* Step 4 of read_imc_info: 10 03, then 3E 00 and DID 0x0202, or the error
\* row for 0x0202.
InfoExtended ==
    /\ i_pc = "ext"
    /\ i_reqs' = Append(i_reqs, <<16, 3>>)
    /\ \E ok \in BOOLEAN :
         IF ok
         THEN /\ i_ext' = "ok"
              /\ i_pc' = "tp"
              /\ UNCHANGED <<i_entries, i_idx>>
         ELSE /\ i_ext' = "err"
              /\ i_entries' = Append(i_entries,
                                     [did |-> IMC_STATUS, value |-> FALSE,
                                      error |-> "Extended Session required for 0x0202"])
              /\ i_idx' = i_idx + 1
              /\ i_pc' = "done"
    /\ UNCHANGED <<i_ecu, i_bench, i_attempt, i_poll_oks, i_slept_s>>
    /\ UNCHANGED noninfovars

\* ------------------------------------------------------ DID sweep scans
\* scan_ecu_dids (commands.rs), called by scan_gwm_full and scan_ipc_full
\* with the ECU's DID list. The lists are cut to their leading entries.
SweepLists ==
    {SubSeq(<<VIN, MASTER_RPM_PART, ECU_SERIAL, ECU_SERIAL2, 16411>>, 1, MaxSweepDids),
     SubSeq(<<VIN, MASTER_RPM_PART, 61713, ECU_SERIAL, ECU_SERIAL2>>, 1, MaxSweepDids - 1)}

\* A request as the ECU saw it.
SweepReq(bytes, pass) == [req |-> bytes, session |-> w_session, pass |-> pass]

\* The entries of did_results: json!({"did", "session", "raw_hex" | "error"}).
SweepRow(did_id, session, ok) == [did |-> did_id, session |-> session, ok |-> ok]

\* did_results.iter_mut().find(|e| e["did"] == ..): the first entry of the DID.
FindRow(results, did_id) ==
    CHOOSE k \in DOMAIN results :
        results[k].did = did_id /\ \A j \in 1..(k - 1) : results[j].did # did_id

\* Pass 2 iterates failed_in_default.
RetryList(dids, failed) == failed

\* The ECU's session after a 10 03: Extended when it answered positively.
SessionAfter(session, ok) == IF ok THEN "extended" ELSE session

SweepInit ==
    /\ w_pc = "idle"
    /\ w_dids = << >>
    /\ w_idx = 1
    /\ w_results = << >>
    /\ w_failed = << >>
    /\ w_session = "default"
    /\ w_reqs = << >>

\* Entry of scan_ecu_dids: the wake-up 3E 00. Between two sweeps the ECU may
\* have fallen back to the Default session.
SweepCall ==
    /\ w_pc \in {"idle", "done"}
    /\ \E l \in SweepLists : w_dids' = l
    /\ \E fall \in BOOLEAN :
         /\ w_session' = IF fall THEN "default" ELSE w_session
         /\ w_reqs' = <<[req |-> <<62, 0>>, session |-> w_session', pass |-> 1]>>
    /\ w_idx' = 1
    /\ w_results' = << >>
    /\ w_failed' = << >>
    /\ w_pc' = "pass1"
    /\ UNCHANGED nonsweepvars

\* One round of `for &did in all_dids`: the read, its row, the 3E 00.
SweepPass1 ==
    /\ w_pc = "pass1"
    /\ LET did_id == w_dids[w_idx] IN
         /\ w_reqs' = w_reqs \o <<SweepReq(read_did_request(did_id), 1), SweepReq(<<62, 0>>, 1)>>
         /\ \E ok \in BOOLEAN :
              /\ w_results' = Append(w_results, SweepRow(did_id, "default", ok))
              /\ w_failed' = IF ok THEN w_failed ELSE Append(w_failed, did_id)
              /\ w_pc' = IF w_idx < Len(w_dids) THEN "pass1"
                         ELSE IF w_failed' # << >> THEN "ext" ELSE "dump"
    /\ w_idx' = IF w_idx < Len(w_dids) THEN w_idx + 1 ELSE 1
    /\ UNCHANGED <<w_dids, w_session>>
    /\ UNCHANGED nonsweepvars

\* `let _ = send_uds_request(.., &[0x10, 0x03], ..)`: the result is dropped.
SweepExtended ==
    /\ w_pc = "ext"
    /\ w_reqs' = Append(w_reqs, SweepReq(<<16, 3>>, 2))
    /\ \E ok \in BOOLEAN : w_session' = SessionAfter(w_session, ok)
    /\ w_pc' = "pass2"
    /\ UNCHANGED <<w_dids, w_idx, w_results, w_failed>>
    /\ UNCHANGED nonsweepvars

\* One round of `for &did in &failed_in_default`.
SweepPass2 ==
    /\ w_pc = "pass2"
    /\ LET retry == RetryList(w_dids, w_failed)
           did_id == retry[w_idx] IN
         /\ w_reqs' = w_reqs \o <<SweepReq(read_did_request(did_id), 2), SweepReq(<<62, 0>>, 2)>>
         /\ \E ok \in BOOLEAN :
              w_results' = IF ok
                           THEN [w_results EXCEPT ![FindRow(w_results, did_id)] =
                                     SweepRow(did_id, "extended", TRUE)]
                           ELSE w_results
         /\ w_pc' = IF w_idx < Len(retry) THEN "pass2" ELSE "dump"
    /\ w_idx' = w_idx + 1
    /\ UNCHANGED <<w_dids, w_failed, w_session>>
    /\ UNCHANGED nonsweepvars

\* The dump is built from did_results and written.
SweepDump ==
    /\ w_pc = "dump"
    /\ w_pc' = "done"
    /\ UNCHANGED <<w_dids, w_idx, w_results, w_failed, w_session, w_reqs>>
    /\ UNCHANGED nonsweepvars

\* ------------------------------------------------------ CCF comparison
\* compare_ccf_inner (commands.rs). The option id list is cut to its leading
\* entries, the blocks to a header and a few option bytes.
CCF_HDR == 21

IMC_CCF_OPTION_IDS == SubSeq(<<1, 2, 3, 4, 6, 7>>, 1, MaxCcfOptions)

CcfBytes == {0, 1}

RECURSIVE CcfData(_)
CcfData(n) ==
    IF n = 0 THEN {<< >>}
    ELSE {Append(d, b) : d \in CcfData(n - 1), b \in CcfBytes}

\* What read_ccf_block_did / read_ccf_report_imc return: None, or the bytes
\* after the response head: a block too short to hold any option, or the
\* 21-byte header followed by option bytes (option 0 first).
CcfBlocks ==
    {<< >>, << <<0>> >>} \cup
    {<<[k \in 1..CCF_HDR |-> 0] \o d>> : d \in UNION {CcfData(n) : n \in 1..MaxCcfData}}

\* The entry of the decode table for an option: absent, a name only, or a
\* name and a label for raw value 0.
CcfTables == {"absent", "named", "labelled"}

\* b.get(idx) on Option<Vec<u8>>: Some(byte) when the block is there and
\* long enough.
CcfGet(block, idx) ==
    IF block # << >> /\ idx + 1 <= Len(block[1]) THEN <<block[1][idx + 1]>> ELSE << >>

\* decode_ccf_value: "<label> (0xNN)", "<name>: 0xNN (unknown)" or "0xNN",
\* as the format used and the byte printed.
decode_ccf_value(table, option_id, raw_value) ==
    IF table = "labelled" /\ raw_value = 0 THEN <<"label", raw_value>>
    ELSE IF table # "absent" THEN <<"unknown", raw_value>>
    ELSE <<"hex", raw_value>>

\* Option::map(decode_ccf_value)
CcfStr(table, option_id, val) ==
    IF val = << >> THEN << >> ELSE <<decode_ccf_value(table, option_id, val[1])>>

\* Only the GWM and BCM values compared.
MismatchGwmBcm(g, b, i) == g # << >> /\ b # << >> /\ g # b

\* match (&gwm_str, &bcm_str, &imc_str) { .. }
Mismatch(g, b, i) ==
    IF g # << >> /\ b # << >> /\ g[1] # b[1] THEN TRUE
    ELSE IF g # << >> /\ i # << >> /\ g[1] # i[1] THEN TRUE
    ELSE IF b # << >> /\ i # << >> /\ b[1] # i[1] THEN TRUE
    ELSE FALSE

CcfCompareEntry(table, blocks, opt_id) ==
    LET idx == CCF_HDR + opt_id
        g == CcfStr(table, opt_id, CcfGet(blocks.gwm, idx))
        b == CcfStr(table, opt_id, CcfGet(blocks.bcm, idx))
        i == CcfStr(table, opt_id, CcfGet(blocks.imc, idx))
    IN [option_id |-> opt_id, gwm |-> g, bcm |-> b, imc |-> i, mismatch |-> Mismatch(g, b, i)]

NoBlocks == [gwm |-> << >>, bcm |-> << >>, imc |-> << >>]

CcfInit ==
    /\ cc_pc = "idle"
    /\ cc_table = "absent"
    /\ cc_blocks = NoBlocks
    /\ cc_entries = << >>
    /\ cc_result = "none"

\* sdd_prerequisite_flow(..)?, then the three block reads.
CcfCall ==
    /\ cc_pc = "idle"
    /\ \E t \in CcfTables : cc_table' = t
    /\ \E pre_ok \in BOOLEAN :
         IF pre_ok
         THEN /\ \E g \in CcfBlocks, b \in CcfBlocks, i \in CcfBlocks :
                   cc_blocks' = [gwm |-> g, bcm |-> b, imc |-> i]
              /\ cc_pc' = "decode"
              /\ cc_result' = "none"
         ELSE /\ cc_blocks' = NoBlocks
              /\ cc_pc' = "done"
              /\ cc_result' = "err"
    /\ cc_entries' = << >>
    /\ UNCHANGED nonccfvars

\* `for &opt_id in IMC_CCF_OPTION_IDS { .. entries.push(..) }`, Ok(entries).
CcfDecode ==
    /\ cc_pc = "decode"
    /\ cc_entries' = [k \in DOMAIN IMC_CCF_OPTION_IDS |->
                        CcfCompareEntry(cc_table, cc_blocks, IMC_CCF_OPTION_IDS[k])]
    /\ cc_result' = "ok"
    /\ cc_pc' = "done"
    /\ UNCHANGED <<cc_table, cc_blocks>>
    /\ UNCHANGED nonccfvars

\* The command has returned; the next one starts from scratch.
CcfReturn ==
    /\ cc_pc = "done"
    /\ cc_pc' = "idle"
    /\ cc_table' = "absent"
    /\ cc_blocks' = NoBlocks
    /\ cc_entries' = << >>
    /\ cc_result' = "none"
    /\ UNCHANGED nonccfvars

\* ------------------------------------------- keygen_mki on sample seeds
\* The seeds of test_keygen_matches_python, ((i * 7919 + 104729) % 0xFFFFFF),
\* and the boundary seeds of the other tests.
KeySeeds ==
    {(i * 7919 + 104729) % 16777215 : i \in 0..(MaxKeySeeds - 1)}
    \cup {0, 1, 8388607, 16777215, 1122867, 11189196}

KeyInit ==
    /\ k_pc = "idle"
    /\ k_seed = 0
    /\ k_key = -1

KeyCall ==
    /\ k_pc = "idle"
    /\ \E s \in KeySeeds : k_seed' = s
    /\ k_key' = -1
    /\ k_pc' = "run"
    /\ UNCHANGED nonkeyvars

KeyRun ==
    /\ k_pc = "run"
    /\ k_key' = keygen_mki(k_seed, DC0314_CONSTANTS)
    /\ k_pc' = "done"
    /\ UNCHANGED k_seed
    /\ UNCHANGED nonkeyvars

KeyReturn ==
    /\ k_pc = "done"
    /\ k_pc' = "idle"
    /\ k_seed' = 0
    /\ k_key' = -1
    /\ UNCHANGED nonkeyvars

\* ------------------------------------ from_byte and to_byte on every byte
NrcInit ==
    /\ n_pc = "idle"
    /\ n_byte = 0
    /\ n_nrc = from_byte(0)
    /\ n_back = -1

NrcFromByte ==
    /\ n_pc = "idle"
    /\ \E b \in 0..255 :
         /\ n_byte' = b
         /\ n_nrc' = from_byte(b)
    /\ n_back' = -1
    /\ n_pc' = "decoded"
    /\ UNCHANGED nonnrcvars

NrcToByte ==
    /\ n_pc = "decoded"
    /\ n_back' = to_byte(n_nrc)
    /\ n_pc' = "done"
    /\ UNCHANGED <<n_byte, n_nrc>>
    /\ UNCHANGED nonnrcvars

NrcReturn ==
    /\ n_pc = "done"
    /\ n_pc' = "idle"
    /\ n_byte' = 0
    /\ n_nrc' = from_byte(0)
    /\ n_back' = -1
    /\ UNCHANGED nonnrcvars

\* ------------------------------------------- building and reading messages
\* tx_ids with every header byte exercised; the largest is the largest the
\* model's integers hold.
MsgTxIds == {0, 1843, 1971, 305419896, 2147483647}
MsgBytes == {0, 34, 255}

MsgPayloads == UNION {[1..n -> MsgBytes] : n \in 0..MaxMsgLen}

MsgInit ==
    /\ m_pc = "idle"
    /\ m_tx = 0
    /\ m_pl = << >>
    /\ m_msg = new_iso15765(0, << >>)
    /\ m_id = -1
    /\ m_out = << >>

MsgNew ==
    /\ m_pc = "idle"
    /\ \E tx \in MsgTxIds, pl \in MsgPayloads :
         /\ m_tx' = tx
         /\ m_pl' = pl
         /\ m_msg' = new_iso15765(tx, pl)
    /\ m_pc' = "built"
    /\ UNCHANGED <<m_id, m_out>>
    /\ UNCHANGED nonmsgvars

MsgRead ==
    /\ m_pc = "built"
    /\ m_id' = can_id(m_msg)
    /\ m_out' = payload(m_msg)
    /\ m_pc' = "done"
    /\ UNCHANGED <<m_tx, m_pl, m_msg>>
    /\ UNCHANGED nonmsgvars

MsgReturn ==
    /\ m_pc = "done"
    /\ m_pc' = "idle"
    /\ m_tx' = 0
    /\ m_pl' = << >>
    /\ m_msg' = new_iso15765(0, << >>)
    /\ m_id' = -1
    /\ m_out' = << >>
    /\ UNCHANGED nonmsgvars

\* ------------------------------------------------------- specifications
Init == ReqInit /\ CliInit /\ ConnInit /\ EmuInit /\ SddInit /\ InfoInit /\ SweepInit /\ CcfInit /\ KeyInit /\ NrcInit /\ MsgInit

NextRequest ==
    ReqCall \/ ReqSend \/ ReqTimeout \/ ReqReadFail \/ ReqRead \/ ReqMsg \/ ReqSleep

SpecRequest == Init /\ [][NextRequest]_vars

NextClient == CliCall \/ CliTimeout \/ CliReadFail \/ CliRead \/ CliMsg \/ CliSleep

SpecClient == Init /\ [][NextClient]_vars

\* Either function called on a fresh channel, followed to its return.
ReqFirstCall == cpc = "idle" /\ ReqCall

CliFirstCall == rpc = "idle" /\ CliCall

ReqStep == ReqSend \/ ReqTimeout \/ ReqReadFail \/ ReqRead \/ ReqMsg \/ ReqSleep

CliStep == CliTimeout \/ CliReadFail \/ CliRead \/ CliMsg \/ CliSleep

NextSendRecv ==
    \/ ReqFirstCall \/ ReqSend \/ ReqTimeout \/ ReqReadFail \/ ReqRead \/ ReqMsg \/ ReqSleep
    \/ CliFirstCall \/ CliTimeout \/ CliReadFail \/ CliRead \/ CliMsg \/ CliSleep

SpecSendRecv == Init /\ [][NextSendRecv]_vars

\* The calling thread keeps running: each pass of the poll loop ends.
SpecSendRecvFair == SpecSendRecv /\ WF_vars(ReqStep) /\ WF_vars(CliStep)

InvokeAny == \E t \in T : Invoke(t)
AcquireAny == \E t \in T : Acquire(t)
ReturnAny == \E t \in T : Return(t)
ConnectAny == \E t \in T : Connect(t)
ConnectIsoAny == \E t \in T : ConnectIso(t)
ConnectFiltersAny == \E t \in T : ConnectFilters(t)
DisconnectAny == \E t \in T : Disconnect(t)
ToggleBenchModeAny == \E t \in T : ToggleBenchMode(t)
ToggleEnableAny == \E t \in T : ToggleEnable(t)
DropStepAny == \E t \in T : DropStep(t)
ReadEcuInfoAny == \E t \in T : ReadEcuInfo(t)
GetBenchModeStatusAny == \E t \in T : GetBenchModeStatus(t)
PreTakeAny == \E t \in T : PreTake(t)
PreBroadcastAny == \E t \in T : PreBroadcast(t)
PreReopenAny == \E t \in T : PreReopen(t)
FlowAny == \E t \in T : Flow(t)
UseChannelAny == \E t \in T : UseChannel(t)
ExchangeSendAny == \E t \in T : ExchangeSend(t)
ExchangeRecvAny == \E t \in T : ExchangeRecv(t)

NextConn ==
    \/ InvokeAny \/ AcquireAny \/ ReturnAny
    \/ ConnectAny \/ ConnectIsoAny \/ ConnectFiltersAny \/ DisconnectAny
    \/ ToggleBenchModeAny \/ ToggleEnableAny \/ DropStepAny
    \/ GetBenchModeStatusAny \/ ReadEcuInfoAny \/ PreTakeAny \/ PreBroadcastAny \/ PreReopenAny
    \/ FlowAny \/ UseChannelAny \/ ExchangeSendAny \/ ExchangeRecvAny
    \/ WorkerSettle \/ WorkerWhile \/ WorkerFor \/ WorkerWrite \/ WorkerSleep

SpecConn == Init /\ [][NextConn]_vars

\* The operating system schedules the worker thread: a step it can take is
\* eventually taken.
SpecConnFair == SpecConn /\ WF_vars(WorkerNext)

NextEmu == EmuNew \/ EmuCall \/ EmuByte \/ EmuSendUdsRequest

SpecEmu == Init /\ [][NextEmu]_vars

NextSdd == SddCall \/ SddTesterPresent \/ SddSession \/ SddSeed \/ SddKey \/ SddRoutine

SpecSdd == Init /\ [][NextSdd]_vars

NextInfo == InfoCall \/ InfoPoll \/ InfoTesterPresent \/ InfoReadDid \/ InfoExtended

SpecInfo == Init /\ [][NextInfo]_vars

NextSweep == SweepCall \/ SweepPass1 \/ SweepExtended \/ SweepPass2 \/ SweepDump

SpecSweep == Init /\ [][NextSweep]_vars

NextCcf == CcfCall \/ CcfDecode \/ CcfReturn

SpecCcf == Init /\ [][NextCcf]_vars

NextKey == KeyCall \/ KeyRun \/ KeyReturn

SpecKey == Init /\ [][NextKey]_vars

NextNrc == NrcFromByte \/ NrcToByte \/ NrcReturn

SpecNrc == Init /\ [][NextNrc]_vars


NextMsg == MsgNew \/ MsgRead \/ MsgReturn

SpecMsg == Init /\ [][NextMsg]_vars


\* ------------------------------------------------------------------ C1
\* C1: in send_uds_request_once a negative response 7F s n with s different
\* from request[0] never ends the attempt (the loop is still polling right
\* after looking at it), and an attempt in which every frame looked at was
\* such a stale NRC ends with the timeout error (or with a failed read),
\* never with an NRC error and never with a response.
C1_StaleNrcSkipped ==
    /\ IsStaleNrc(request, r_frame) => rpc = "for" /\ result = NoResult
    /\ (rpc \in {"send", "done"} /\ attempts > 0 /\ got_frames > 0 /\ only_stale)
          => once \in {ErrTimeout, ErrTransport}

C1_Witness ==
    /\ rpc = "done"
    /\ got_frames = 2
    /\ only_stale
    /\ once = ErrTimeout
    /\ result = ErrTimeout

\* ------------------------------------------------------------------ C2
\* C2 as stated: when all 7 attempts (1 + 6 retries) were answered with
\* NRC 0x21 the call fails with "Max busy retries exceeded".
C2_Original ==
    (rpc = "done" /\ busy_count = max_busy_retries + 1) => result = ErrMaxBusy

\* C2 as amended: when all 7 attempts were answered with NRC 0x21 the call
\* fails with the NRC 0x21 error of the seventh attempt; no call ever fails
\* with "Max busy retries exceeded".
C2_ExhaustedReturnsBusyNrc ==
    /\ (rpc = "done" /\ busy_count = max_busy_retries + 1)
          => /\ result = ErrNrc(request[1], NRC_BUSY)
             /\ contains_0x21(result)
    /\ result # ErrMaxBusy

C2_Witness ==
    /\ rpc = "done"
    /\ busy_count = max_busy_retries + 1
    /\ sent = max_busy_retries + 1

\* ------------------------------------------------------------------ C3
\* C3: send_uds_request transmits the request at most 7 times; every
\* transmission after the first follows an attempt that failed with NRC 0x21
\* and a 1 s sleep (so while the call runs every completed attempt was busy
\* and was followed by one sleep); a call whose last attempt got a positive
\* response returns that response, whatever busy errors preceded it.
C3_BusyRetryBounded ==
    /\ sent <= max_busy_retries + 1
    /\ rpc \in {"send", "poll", "for"}
          => /\ busy_count = attempts
             /\ slept = attempts
             /\ busy_attempt = attempts
             /\ sent = attempts + (IF rpc = "send" THEN 0 ELSE 1)
    /\ rpc = "done"
          => /\ sent = attempts
             /\ slept = attempts - 1
             /\ busy_count \in {attempts - 1, attempts}
             /\ result = once
    /\ (rpc = "done" /\ once.kind = "Ok")
          => /\ result.kind = "Ok"
             /\ result.data[1] = request[1] + POSITIVE_OFFSET

C3_Witness ==
    /\ rpc = "done"
    /\ result.kind = "Ok"
    /\ busy_count = 3
    /\ slept = 3
    /\ sent = 4

\* ------------------------------------------------------------------ C4
\* C4: in UdsClient::send_recv a 7F sid 78 frame for the request in flight
\* never ends the call: right after looking at it the call is still polling,
\* has no result, and the latest log record is the Pending record for that
\* frame; a positive response looked at later is returned as the result.
C4_PendingKeepsPolling ==
    /\ c_frame = <<NEGATIVE_RESPONSE, c_request[1], NRC_PENDING>>
          => /\ cpc = "for"
             /\ c_result = NoResult
             /\ c_last_log = Log("Pending", c_frame)
    /\ (c_pending_seen /\ Len(c_frame) > 0 /\ c_frame[1] = c_request[1] + POSITIVE_OFFSET)
          => /\ cpc = "done"
             /\ c_result = Ok(c_frame)

C4_Witness ==
    /\ c_pending_seen
    /\ cpc = "done"
    /\ c_request = <<49, 1, 96, 62>>
    /\ c_result = Ok(<<113, 1, 96, 62>>)

\* ------------------------------------------------------------------ C5
\* C5: UdsClient::send_recv ignores a negative response whose echoed service
\* id differs from request[0]: it keeps polling after it and never returns a
\* NegativeResponse error carrying a service id other than the one it sent.
C5_ClientIgnoresStaleNrc ==
    /\ IsStaleNrc(c_request, c_frame) => cpc = "for"
    /\ c_result.kind = "Nrc" => c_result.sid = c_request[1]


\* ------------------------------------------------------------------ C6
\* C6: dropping a Connection releases in reverse construction order: every
\* channel is disconnected before the device is closed, and the device is
\* closed before the library is unloaded; so no channel is ever still
\* connected on a closed device, and no device still open on an unloaded
\* library.
C6_ReverseConstructionOrder ==
    /\ (iso_open \/ can_open \/ pre_can_open) => dev_open
    /\ dev_open => lib_refs > 0

\* ------------------------------------------------------------------ C7
\* C7: the worker only ever writes to a raw-CAN channel that is still open:
\* whenever the raw-CAN channel is disconnected or the library is unloaded
\* (toggle_bench_mode off or on again, disconnect), the worker has already
\* been stopped and joined.
C7_WorkerJoinedBeforeClose ==
    /\ WorkerAlive => (can_open /\ lib_refs > 0)
    /\ ~bad_write

\* ------------------------------------------------------------------ C8
\* C8: stop sets the flag and joins the worker, so once stop (or the drop of
\* the manager) has returned - the manager's handle is gone - the worker has
\* exited and issues no further write; a stop step on a manager that has no
\* handle (a second stop, or a manager made without a worker) changes
\* neither the flag nor the worker.
C8_StopStep ==
    \E t \in T :
        /\ pc[t] = "drop"
        /\ todo[t] # << >>
        /\ Head(todo[t]) \in {"stop_flag", "stop_join"}
        /\ todo'[t] # todo[t]

C8_StopJoinsWorker ==
    /\ [](~handle => (wpc \in {"none", "exited"} /\ ~running))
    /\ [][(C8_StopStep /\ ~handle) => UNCHANGED <<running, handle, wpc, widx, late_writes>>]_vars
    /\ [][(wpc = "exited" /\ ~handle /\ wpc' = "exited") => late_writes' = late_writes]_vars

\* The second stop of toggle_bench_mode has returned, after the first one
\* joined a worker that had written.
C8_Witness ==
    /\ \E t \in T : pc[t] = "drop" /\ todo[t] = <<"mgr_free", "can_channel">>
    /\ wpc = "exited"
    /\ ~handle
    /\ late_writes = 1

\* ------------------------------------------------------------------ C9
\* C9: once the stop flag has been set the worker eventually terminates (it
\* leaves its loop, or the process dies in the write that was in progress):
\* it tests the flag before every message, so with the flag set it starts no
\* further message and issues at most the one write already in progress.
C9_WorkerTerminates ==
    /\ [](late_writes <= 1)
    /\ [][(wpc = "for" /\ ~running) => wpc' # "write"]_vars
    /\ (WorkerAlive /\ ~running) ~> ~WorkerAlive

C9_Witness ==
    /\ wpc = "exited"
    /\ late_writes = 1
    /\ ~running
    /\ ~crashed

\* ----------------------------------------------------------------- C10
\* C10: commands on one connection are mutually exclusive: a command that
\* is past its lock() holds the connection mutex until it returns, so at
\* most one command is ever inside, and no request is sent or answered on
\* the ISO-TP channel while another command's request awaits its response.
C10_CommandsExclusive ==
    /\ \A t \in T : pc[t] \notin {"idle", "lock"} => lock = t
    /\ inflight # 0 => lock = inflight /\ pc[inflight] = "exchange_wait"
    /\ ~interleaved

\* One command waits for the mutex while the other's request is in flight.
C10_Witness ==
    /\ inflight = 2
    /\ pc[1] = "lock"
    /\ cmd[1].kind = "flow"
    /\ cmd[2].kind = "read_ecu_info"


\* ----------------------------------------------------------------- C11
\* C11: when an emulator is attached and tx_id is the request address of one
\* of its emulated ECUs, send_uds_request performs no channel operation and
\* returns Err exactly when the emulator's reply is a 7F negative response,
\* Ok(reply) otherwise; the channel is used only when no emulated ECU owns
\* tx_id.
EmuOwned == e_attached /\ \E i \in 1..Len(e_ecus) : tx_id(e_ecus[i]) = e_tx

C11_ShortCircuitSkipsChannel ==
    e_pc = "done" =>
       /\ EmuOwned =>
             /\ e_chan_ops = 0
             /\ e_reply.some
             /\ e_out.kind \in {"Ok", "Nrc"}
             /\ (e_out.kind = "Nrc") <=> (e_reply.bytes[1] = NEGATIVE_RESPONSE)
             /\ e_out.kind = "Ok" => e_out.data = e_reply.bytes
             /\ e_out.kind = "Nrc" => e_out.nrc = e_reply.bytes[3]
       /\ e_chan_ops > 0 => ~EmuOwned
       /\ ~EmuOwned => e_out = ViaChannel /\ e_chan_ops = 1

C11_Witness ==
    /\ e_pc = "done"
    /\ EmuOwned
    /\ e_req = <<34, 0, 241>>
    /\ e_out = ErrNrc(34, 49)
    /\ e_chan_ops = 0

\* ----------------------------------------------------------------- C12
EmuOwner == CHOOSE e \in {"bcm", "gwm", "ipc"} : tx_id(e) = e_tx

\* The rows of the prefix table that a request matches give the reply.
EmuTableRows(req, reply) ==
    /\ (Len(req) >= 2 /\ req[1] = 62 /\ req[2] = 0) => reply = <<126, 0>>
    /\ (Len(req) >= 2 /\ req[1] = 16) => reply = <<80, req[2], 0, 25, 1, 244>>
    /\ (Len(req) >= 2 /\ req[1] = 17) => reply = <<81, req[2]>>
    /\ (Len(req) >= 2 /\ req[1] = 39) => reply = <<103, req[2], 0, 0, 0>>
    /\ (Len(req) >= 2 /\ req[1] = 40) => reply = <<104, req[2]>>
    /\ (Len(req) >= 3 /\ req[1] = 46) => reply = <<110, req[2], req[3]>>
    /\ (Len(req) >= 4 /\ req[1] = 49) => reply = <<113, req[2], req[3], req[4]>>
    /\ (Len(req) >= 3 /\ req[1] = 34) =>
          \/ reply = <<127, 34, 49>>
          \/ Len(reply) > 3 /\ SubSeq(reply, 1, 3) = <<98, req[2], req[3]>>
    /\ (Len(req) >= 3 /\ req[1] = 34 /\ req[2] = 241 /\ req[3] = 144) =>
          reply = <<98, 241, 144, 83, 65, 74, 66, 76, 52, 66, 86, 88, 71, 67, 89, 49, 54, 51,
                    53, 51>>

EmuListedSids == {16, 17, 34, 39, 40, 46, 49, 62}

\* C12 as stated: every emulated ECU answers by the same prefix table, and
\* 7F sid 11 is returned only for services outside the table.
C12_Original ==
    (e_pc = "done" /\ EmuOwned) =>
       /\ EmuTableRows(e_req, e_reply.bytes)
       /\ e_reply.bytes = <<127, e_req[1], 17>> => e_req[1] \notin EmuListedSids

\* C12 as amended: the BCM answers by the prefix table, and gives 7F sid 11
\* to every request that matches no row (an unlisted service, 3E with a
\* sub-function other than 00, or a listed service with too few bytes); GWM
\* and IPC answer 3E 00, 10 s and 27 lvl by the table and give 7F sid 11 to
\* every other request, the other listed services included.
EmuMatchesBcmRow(req) ==
    \/ Len(req) >= 2 /\ req[1] = 62 /\ req[2] = 0
    \/ Len(req) >= 2 /\ req[1] \in {16, 17, 39, 40}
    \/ Len(req) >= 3 /\ req[1] \in {34, 46}
    \/ Len(req) >= 4 /\ req[1] = 49

EmuMatchesSmallRow(req) ==
    \/ Len(req) >= 2 /\ req[1] = 62 /\ req[2] = 0
    \/ Len(req) >= 2 /\ req[1] \in {16, 39}

C12_PerEcuTables ==
    (e_pc = "done" /\ EmuOwned) =>
       IF EmuOwner = "bcm"
       THEN /\ EmuTableRows(e_req, e_reply.bytes)
            /\ (e_reply.bytes = <<127, e_req[1], 17>>) <=> ~EmuMatchesBcmRow(e_req)
       ELSE /\ EmuMatchesSmallRow(e_req) => EmuTableRows(e_req, e_reply.bytes)
            /\ (e_reply.bytes = <<127, e_req[1], 17>>) <=> ~EmuMatchesSmallRow(e_req)

C12_Witness ==
    /\ e_pc = "done"
    /\ EmuOwned
    /\ EmuOwner = "gwm"
    /\ e_req = <<34, 241, 144>>
    /\ e_reply = Some(<<127, 34, 17>>)

\* ----------------------------------------------------------------- C13
\* C13: for every emulated ECU and every request r the emulator produces a
\* reply, and the reply begins with r[0]+0x40 or is 7F r[0] followed by an
\* NRC byte; it never echoes another service id.
C13_ReplyEchoesService ==
    (e_pc = "done" /\ EmuOwned) =>
       /\ e_reply.some
       /\ \/ e_reply.bytes[1] = e_req[1] + POSITIVE_OFFSET
          \/ /\ Len(e_reply.bytes) = 3
             /\ e_reply.bytes[1] = NEGATIVE_RESPONSE
             /\ e_reply.bytes[2] = e_req[1]

C13_Witness ==
    /\ e_pc = "done"
    /\ EmuOwned
    /\ EmuOwner = "ipc"
    /\ e_req = <<46, 241, 144, 0>>
    /\ e_reply = Some(<<127, 46, 17>>)

IsPrefix(a, b) == Len(a) <= Len(b) /\ SubSeq(b, 1, Len(a)) = a

\* The service and sub-function bytes of each request sent so far.
SddHeads == [i \in 1..Len(s_sent) |-> SubSeq(s_sent[i], 1, 2)]

\* C15: the requests of the SDD flow go out in the order 3E 00, 10 03, then
\* (only when security is required) 27 11 and after it 27 12, then the
\* routine request 31 01; once a request got an error it is the last one
\* sent and the call has returned.
C15_FixedOrderAbortOnError ==
    /\ \/ IsPrefix(SddHeads, <<<<62, 0>>, <<16, 3>>, <<49, 1>>>>) /\ ~s_needs_security
       \/ IsPrefix(SddHeads, <<<<62, 0>>, <<16, 3>>, <<39, 17>>, <<49, 1>>>>)
            /\ s_needs_security
       \/ IsPrefix(SddHeads, <<<<62, 0>>, <<16, 3>>, <<39, 17>>, <<39, 18>>, <<49, 1>>>>)
            /\ s_needs_security
    /\ s_failed_at # 0 =>
         /\ Len(s_sent) = s_failed_at
         /\ s_pc = "done"
         /\ s_result.kind = "Err"

C15_Witness ==
    /\ s_pc = "done"
    /\ s_needs_security
    /\ s_failed_at = 4
    /\ SddHeads = <<<<62, 0>>, <<16, 3>>, <<39, 17>>, <<39, 18>>>>

\* ------------------------------------------------------------------ C16
ZeroSeed ==
    /\ Len(s_seed_resp) >= 5
    /\ s_seed_resp[3] = 0 /\ s_seed_resp[4] = 0 /\ s_seed_resp[5] = 0

\* C16: after an all-zero seed the key engine has not run and no 27 12 has
\* been sent; the flow went on to the routine request.
C16_ZeroSeedSkipsKey ==
    ZeroSeed =>
        /\ s_keygen_runs = 0
        /\ \A i \in 1..Len(s_sent) : SubSeq(s_sent[i], 1, 2) # <<39, 18>>
        /\ s_pc \in {"routine", "done"}
        /\ s_pc = "done" =>
             /\ Len(s_sent) = 4
             /\ s_sent[4] = routine_request(s_routine, s_data)
             /\ s_failed_at \in {0, 4}

C16_Witness ==
    /\ ZeroSeed
    /\ s_pc = "done"
    /\ s_result.kind = "Ok"
    /\ Len(s_sent) = 4

\* ------------------------------------------------------------------ C17
\* C17: at most one raw-CAN channel is open at any time (the ISO-TP channel
\* is a single one by construction), and on an adapter that refuses
\* concurrent channels at most one channel of any kind is open.
C17_AtMostOneChannelPerKind ==
    /\ ~(can_open /\ pre_can_open)
    /\ ~concurrent =>
         /\ ~(iso_open /\ can_open)
         /\ ~(iso_open /\ pre_can_open)

\* ------------------------------------------------------------------ C18
SwapFull ==
    <<SwapEv("iso_close"), SwapEv("can_open"),
      [op |-> "broadcast", ms |-> 5000], SwapEv("can_close"),
      SwapEv("iso_open"), SwapEv("config"), SwapEv("filters")>>

\* The steps left when the adapter refuses the raw-CAN connect.
SwapNoBroadcast ==
    <<SwapEv("iso_close"), SwapEv("iso_open"), SwapEv("config"), SwapEv("filters")>>

\* C18: the steps of the channel swap happen in the order close ISO-TP,
\* open raw-CAN, broadcast for 5 s, close raw-CAN, open ISO-TP, configure,
\* install filters (the three raw-CAN steps are absent when the raw-CAN
\* connect is refused), and the ISO-TP channel and the swap's raw-CAN
\* channel are never open together.
C18_SwapOrderExclusive ==
    /\ IsPrefix(swap, SwapFull) \/ IsPrefix(swap, SwapNoBroadcast)
    /\ ~(iso_open /\ pre_can_open)
    /\ pre_can_open <=> swap = SubSeq(SwapFull, 1, 2)
    /\ \A t \in T : (pc[t] = "use_channel" /\ swap # << >>) =>
                        swap \in {SwapFull, SwapNoBroadcast}

C18_Witness ==
    /\ \E t \in T : pc[t] = "use_channel" /\ cmd[t].kind = "read_ecu_info"
    /\ swap = SwapFull
    /\ iso_open
    /\ channel

\* ------------------------------------------------------------------ C19
EcuPairs == {IMC_PAIR, BCM_PAIR, GWM_PAIR, IPC_PAIR}

\* C19: whenever the connection holds an ISO-TP channel, that channel has
\* exactly one filter for each of the pairs IMC, BCM, GWM and IPC.
C19_OneFilterPerEcuPair ==
    channel =>
        /\ Len(filters) = 4
        /\ \A p \in EcuPairs : Cardinality({i \in 1..Len(filters) : filters[i] = p}) = 1

\* A channel stored by the swap.
C19_Witness ==
    /\ channel
    /\ swap # << >>
    /\ swap[Len(swap)] = SwapEv("filters")
    /\ filters = <<<<1971, 1979>>, <<1830, 1838>>, <<1814, 1822>>, <<1824, 1832>>>>

\* ------------------------------------------------------------------ C20
WorkerRuns == wpc \notin {"none", "exited"}

\* C20: toggle_bench_mode has stopped the worker and closed the raw-CAN
\* channel before it looks at `enabled`; it returns, for enabled=true and a
\* list with a valid ECU, with an emulator for the valid ECUs of the list
\* and a worker exactly when the raw-CAN channel was opened, and for
\* enabled=false with no emulator, worker or raw-CAN channel;
\* get_bench_mode_status reports enabled exactly when an emulator is
\* attached, with its ECUs.
C20_ToggleBenchModePost ==
    /\ \A t \in T :
         /\ pc[t] = "toggle_enable" =>
               ~mgr /\ ~handle /\ ~WorkerRuns /\ ~can_channel /\ ~can_open
         /\ (pc[t] = "ret" /\ cmd[t].kind = "toggle_bench_mode" /\ connected) =>
               IF cmd[t].enabled
               THEN IF \E i \in 1..Len(cmd[t].ecus.names) :
                          cmd[t].ecus.names[i] \in {"bcm", "gwm", "ipc", "BCM", "GWM", "IPC"}
                    THEN /\ mgr
                         /\ mgr_ecus = <<"bcm", "gwm">>
                         /\ WorkerRuns <=> can_open
                         /\ can_channel <=> can_open
                         /\ handle <=> can_open
                    ELSE IF ~cmd[t].ecus.some
                    THEN /\ mgr
                         /\ mgr_ecus = <<"bcm">>
                         /\ WorkerRuns <=> can_open
                         /\ can_channel <=> can_open
                    ELSE ~mgr /\ ~WorkerRuns /\ ~can_open
               ELSE ~mgr /\ ~handle /\ ~WorkerRuns /\ ~can_channel /\ ~can_open
                    /\ ~pre_can_open /\ mgr_ecus = << >>
    /\ status.some =>
         /\ status.enabled <=> mgr
         /\ status.emulated_ecus = mgr_ecus

C20_Witness ==
    \E t \in T :
        /\ pc[t] = "ret"
        /\ cmd[t].kind = "toggle_bench_mode"
        /\ cmd[t].enabled
        /\ cmd[t].ecus = SomeEcus(<<"BCM", "gwm">>)
        /\ mgr
        /\ ~can_open
        /\ ~WorkerRuns
        /\ wpc = "exited"

\* ------------------------------------------------------------------ C21
\* C21: a disconnect that finds no connection returns Ok and changes
\* nothing of the connection, the adapter or the worker; and when a
\* disconnect returns, it returns Ok with the connection absent, every
\* channel and the device closed, the library unloaded and no worker left.
C21_DisconnectIdempotent ==
    /\ [](\A t \in T : (pc[t] = "ret" /\ cmd[t].kind = "disconnect") =>
            /\ retval[t] = "Ok"
            /\ ~connected /\ ~channel /\ ~can_channel /\ ~mgr /\ ~handle
            /\ ~iso_open /\ ~can_open /\ ~pre_can_open /\ ~dev_open
            /\ lib_refs = 0
            /\ filters = << >> /\ mgr_ecus = << >>
            /\ wpc \in {"none", "exited"})
    /\ [][\A t \in T : (pc[t] = "disconnect" /\ pc'[t] # "disconnect" /\ ~connected) =>
            /\ pc'[t] = "ret"
            /\ retval'[t] = "Ok"
            /\ UNCHANGED <<fieldvars, adaptervars, workervars, filters, mgr_ecus>>]_vars

\* A second disconnect has returned after a connection was torn down.
C21_Witness ==
    \E t \in T :
        /\ pc[t] = "ret"
        /\ cmd[t].kind = "disconnect"
        /\ retval[t] = "Ok"
        /\ wpc = "exited"
        /\ lib_refs = 0
        /\ ~connected

\* ------------------------------------------------------------------ C22
\* C22: a connect that returns with a connection present returns Ok; in
\* particular a connect issued while a connection exists succeeds.
C22_ConnectIdempotent ==
    \A t \in T : (pc[t] = "ret" /\ cmd[t].kind = "connect" /\ connected) => retval[t] = "Ok"

\* ------------------------------------------------------------------ C23
\* How many times the info read has sent `req`.
Sent(req) == Cardinality({k \in DOMAIN i_reqs : i_reqs[k] = req})

IsDidRead(req) == req[1] = 34

\* C23: a DID whose read failed with NRC 0x7F has been sent a second time,
\* after a 10 03, by the time its row is emitted; so a row that still
\* carries NRC 0x7F stands for two requests of its DID and an elevation.
C23_ElevateAndRetryOnNrc7F ==
    \A k \in DOMAIN i_entries :
        i_entries[k].error = "NRC 0x7F" =>
            /\ Sent(read_did_request(i_entries[k].did)) = 2
            /\ Sent(<<16, 3>>) >= 1

\* ------------------------------------------------------------------ C24
\* C24: in every per-ECU info read no two DID reads are sent back to back:
\* a tester-present lies between each two consecutive DID reads.
C24_TesterPresentBetweenDidReads ==
    \A k \in 1..(Len(i_reqs) - 1) :
        ~(IsDidRead(i_reqs[k]) /\ IsDidRead(i_reqs[k + 1]))

\* ------------------------------------------------------------------ C25
\* C25: in the bench-mode IMC read the 10 03 request is repeated until it
\* is answered or five attempts have been made, so a read that ends with
\* the elevation error has made five attempts.
C25_ExtendedFiveAttempts ==
    (i_pc = "done" /\ i_ecu = "imc" /\ i_bench /\ i_ext = "err") => Sent(<<16, 3>>) = 5

\* ------------------------------------------------------------------ C26
\* The tester-present requests at the head of the call: in bench mode, the
\* polls of the boot wait.
LeadingTp == Cardinality({k \in DOMAIN i_reqs : \A j \in 1..k : i_reqs[j] = <<62, 0>>})

\* C26: the bench-mode IMC read polls tester-present at most 15 times, has
\* slept 1 s after every poll that is followed by another, and polls no
\* more once a poll has been answered; it gives up only after 15 polls.
C26_BenchPollBounded ==
    (i_ecu = "imc" /\ i_bench /\ i_pc # "idle") =>
        /\ LeadingTp <= POLL_ATTEMPTS
        /\ i_poll_oks <= 1
        /\ i_poll_oks = 1 => i_pc # "poll"
        /\ i_pc = "poll" => i_poll_oks = 0 /\ i_slept_s = POLL_SLEEP_S * LeadingTp
        /\ i_pc # "poll" => i_slept_s = POLL_SLEEP_S * (LeadingTp - 1)
        /\ (i_pc = "done" /\ i_poll_oks = 0) => LeadingTp = POLL_ATTEMPTS

\* The IMC answers the fifteenth poll.
C26_Witness ==
    /\ i_ecu = "imc"
    /\ i_bench
    /\ i_pc = "did"
    /\ LeadingTp = POLL_ATTEMPTS
    /\ i_poll_oks = 1
    /\ i_slept_s = 14

\* ------------------------------------------------------------------ C27
\* Position in i_reqs of the first request equal to req, 0 when absent.
FirstSent(req) ==
    IF Sent(req) = 0 THEN 0
    ELSE CHOOSE k \in DOMAIN i_reqs :
            i_reqs[k] = req /\ \A j \in 1..(k - 1) : i_reqs[j] # req

ElevationError == "Extended Session required for 0x0202"

\* C27: an IMC read whose 10 03 was not answered positively has requested
\* VIN and both serial DIDs before the 10 03, returns their rows with the
\* outcome of those requests, and carries the elevation error only in the
\* row of DID 0x0202, which was never requested.
C27_ElevationFailureKeepsDefaultRows ==
    (i_pc = "done" /\ i_ecu = "imc" /\ i_ext = "err") =>
        /\ Len(i_entries) = 8
        /\ \A d \in {VIN, ECU_SERIAL, ECU_SERIAL2} :
              /\ Sent(read_did_request(d)) = 1
              /\ FirstSent(read_did_request(d)) < FirstSent(<<16, 3>>)
              /\ \E k \in 1..7 : i_entries[k].did = d /\ i_entries[k].error # ElevationError
        /\ \A k \in 1..8 : (i_entries[k].error = ElevationError) <=> (k = 8)
        /\ i_entries[8].did = IMC_STATUS
        /\ Sent(read_did_request(IMC_STATUS)) = 0

\* The elevation failed and the VIN was read in the default session.
C27_Witness ==
    /\ i_pc = "done"
    /\ i_ecu = "imc"
    /\ i_ext = "err"
    /\ Len(i_entries) = 8
    /\ i_entries[2].value
    /\ i_entries[6].value
    /\ i_entries[8].error = ElevationError

\* ------------------------------------------------------------------ C28
\* C28: a finished per-ECU info read holds one row per DID of the ECU's
\* list, in list order, each with exactly one of value and error, and every
\* DID of the list that needs no elevation has been requested.
C28_OneRowPerDid ==
    i_pc = "done" =>
        /\ Len(i_entries) = Len(InfoDids(i_ecu))
        /\ \A k \in DOMAIN i_entries :
              /\ i_entries[k].did = InfoDids(i_ecu)[k]
              /\ i_entries[k].value <=> (i_entries[k].error = "")
        /\ \A k \in DOMAIN InfoDids(i_ecu) :
              InfoDids(i_ecu)[k] # IMC_STATUS => Sent(read_did_request(InfoDids(i_ecu)[k])) = 1

\* ------------------------------------------------------------------ C29
\* The DID reads of one pass of the sweep, in the order sent.
PassReads(pass) == SelectSeq(w_reqs, LAMBDA r : r.pass = pass /\ IsDidRead(r.req))

\* The DIDs of the list whose row says the first read failed or was replaced.
FirstFailed(k) == w_dids[k] \in {w_failed[j] : j \in DOMAIN w_failed}

\* The sweep asks for the list, then for the failed DIDs after a 10 03, and
\* dumps one row per DID; a row is marked extended only if its DID was retried.
SweepShape ==
    w_pc \in {"dump", "done"} =>
        /\ Len(PassReads(1)) = Len(w_dids)
        /\ \A k \in DOMAIN w_dids : PassReads(1)[k].req = read_did_request(w_dids[k])
        /\ Len(PassReads(2)) = Len(w_failed)
        /\ \A j \in DOMAIN w_failed : PassReads(2)[j].req = read_did_request(w_failed[j])
        /\ w_failed # << >> => Cardinality({k \in DOMAIN w_reqs : w_reqs[k].req = <<16, 3>>}) = 1
        /\ \A k \in DOMAIN w_reqs : \A j \in DOMAIN w_reqs :
              (IsDidRead(w_reqs[k].req) /\ w_reqs[k].pass = 2 /\ w_reqs[j].pass = 1) => j < k
        /\ Len(w_results) = Len(w_dids)
        /\ \A k \in DOMAIN w_results :
              /\ w_results[k].did = w_dids[k]
              /\ w_results[k].session = "extended" => (FirstFailed(k) /\ w_results[k].ok)
              /\ w_results[k].ok <=> (~FirstFailed(k) \/ w_results[k].session = "extended")

\* C29: a finished sweep has that shape, every read of the first pass
\* reached the ECU in the Default session and every read of the second
\* pass reached it in the Extended session.
C29_SweepDefaultThenExtended ==
    /\ SweepShape
    /\ w_pc \in {"dump", "done"} =>
          /\ \A k \in DOMAIN PassReads(1) : PassReads(1)[k].session = "default"
          /\ \A k \in DOMAIN PassReads(2) : PassReads(2)[k].session = "extended"

\* ------------------------------------------------------------------ C30
\* The ECU values of a row that are present.
PresentVals(row) == {v \in {row.gwm, row.bcm, row.imc} : v # << >>}

\* The raw option bytes the three blocks hold for an option id.
RawVals(opt_id) ==
    {v \in {CcfGet(cc_blocks.gwm, CCF_HDR + opt_id), CcfGet(cc_blocks.bcm, CCF_HDR + opt_id),
            CcfGet(cc_blocks.imc, CCF_HDR + opt_id)} : v # << >>}

\* C30: compare_ccf returns one row per option id of its list, in list
\* order, and a row is flagged as a mismatch exactly when two of its present
\* values differ, which is exactly when two of the ECUs' raw option bytes
\* differ; rows with fewer than two present values or with all present
\* values equal are not flagged.
C30_MismatchIffTwoPresentDiffer ==
    cc_result = "ok" =>
        /\ Len(cc_entries) = Len(IMC_CCF_OPTION_IDS)
        /\ \A k \in DOMAIN cc_entries :
              /\ cc_entries[k].option_id = IMC_CCF_OPTION_IDS[k]
              /\ cc_entries[k].mismatch <=> Cardinality(PresentVals(cc_entries[k])) >= 2
              /\ cc_entries[k].mismatch <=> Cardinality(RawVals(IMC_CCF_OPTION_IDS[k])) >= 2

\* One row is flagged because IMC differs from GWM while BCM has no value,
\* another row with two equal values is not flagged.
C30_Witness ==
    /\ cc_result = "ok"
    /\ cc_entries[1].mismatch
    /\ cc_entries[1].bcm = << >>
    /\ cc_entries[1].gwm # << >>
    /\ cc_entries[1].imc # << >>
    /\ ~cc_entries[2].mismatch
    /\ cc_entries[2].gwm # << >>
    /\ cc_entries[2].gwm = cc_entries[2].imc

\* ------------------------------------------------------------------ C31
\* C31: every send-and-receive call returns. The deadline of a call is the
\* caller's timeout or 30 s (UdsClient), 5 s or 60 s (orchestrator, per
\* attempt), it does not change while the call polls, frames are only
\* looked at before it has passed, and Timeout is returned exactly by the
\* first pass of the loop that finds it passed.
C31_DeadlineFixedCallTerminates ==
    /\ (cpc \in {"poll", "for"}) ~> (cpc = "done")
    /\ (rpc \in {"send", "poll", "for"}) ~> (rpc = "done")
    /\ [][(cpc \in {"poll", "for"}) => UNCHANGED c_timeout]_vars
    /\ [][(rpc \in {"send", "poll", "for"}) => UNCHANGED wait_pending]_vars
    /\ [](cpc = "for" => c_elapsed <= c_timeout)
    /\ [](rpc = "for" => elapsed <= TimeoutOf(wait_pending))
    /\ [](cpc # "idle" =>
            c_timeout \in {(ms \div 1000) \div TickSeconds : ms \in ClientTimeoutsMs \cup {30000}})
    /\ []((cpc = "done" /\ c_result = ErrTimeout) => c_elapsed = c_timeout + 1)
    /\ []((rpc = "done" /\ result = ErrTimeout) => elapsed = TimeoutOf(wait_pending) + 1)

\* A pending-allowed UdsClient call that saw 7F sid 78 ended in Timeout.
C31_Witness ==
    /\ cpc = "done"
    /\ c_result = ErrTimeout
    /\ c_pending_seen
    /\ c_timeout = (CLIENT_PENDING_MS \div 1000) \div TickSeconds
    /\ c_elapsed > c_timeout

\* ------------------------------------------------------------------ C32
\* C32: in both send-and-receive loops a frame whose first byte is
\* request[0] + 0x40 ends the call at once and is what the call returns, so
\* a successful call returns the first such frame; a frame whose first byte
\* is neither that nor 7F leaves the call polling with nothing returned.
C32_FirstEchoFrameReturned ==
    /\ []((cpc = "done" /\ c_result.kind = "Ok") =>
            /\ c_result.data = c_frame
            /\ c_frame[1] = c_request[1] + POSITIVE_OFFSET)
    /\ []((rpc = "done" /\ result.kind = "Ok") =>
            /\ result.data = r_frame
            /\ r_frame[1] = request[1] + POSITIVE_OFFSET)
    /\ [][(cpc = "for" /\ c_frame' # << >>) =>
            IF c_frame'[1] = c_request[1] + POSITIVE_OFFSET
            THEN cpc' = "done" /\ c_result' = Ok(c_frame')
            ELSE c_frame'[1] # NEGATIVE_RESPONSE =>
                    cpc' = "for" /\ c_result' = NoResult]_vars
    /\ [][(rpc = "for" /\ r_frame' # << >>) =>
            IF r_frame'[1] = request[1] + POSITIVE_OFFSET
            THEN rpc' = "done" /\ result' = Ok(r_frame')
            ELSE r_frame'[1] # NEGATIVE_RESPONSE =>
                    rpc' = "for" /\ result' = NoResult]_vars

\* UdsClient returned the echo frame of a ReadDataByIdentifier after at
\* least one full tick of polling.
C32_Witness ==
    /\ cpc = "done"
    /\ c_request = <<34, 241, 144>>
    /\ c_result = Ok(<<98, 241, 144, 86>>)
    /\ c_frame = <<98, 241, 144, 86>>
    /\ c_elapsed >= 1

\* ------------------------------------------------------------------ C33
\* C33: when UdsClient::send_recv has returned an error, the latest record
\* it handed to the log callback is an Error record.
C33_ErrorLoggedBeforeReturn ==
    (cpc = "done" /\ c_result.kind \in {"Timeout", "Nrc", "Transport"}) =>
        c_last_log.direction = "Error"

\* ------------------------------------------------------------------ C34
\* The reference transformation, on bit vectors: bit k of a word is w[k].
RefBits(x, n) == [k \in 0..(n - 1) |-> (x \div (2 ^ k)) % 2]

RECURSIVE RefValue(_, _)
RefValue(w, n) == IF n = 0 THEN 0 ELSE w[n - 1] * (2 ^ (n - 1)) + RefValue(w, n - 1)

RefTaps == {20, 15, 12, 5, 3}

\* Step 1 and step 4: the input words.
RefIn1(s, c) ==
    [k \in 0..31 |-> IF k < 8 THEN RefBits(s, 24)[k + 16]
                     ELSE IF k < 16 THEN RefBits(s, 24)[k]
                     ELSE IF k < 24 THEN RefBits(s, 24)[k - 16]
                     ELSE RefBits(c[1], 8)[k - 24]]

RefIn2(c) ==
    [k \in 0..31 |-> IF k < 8 THEN RefBits(c[2], 8)[k]
                     ELSE IF k < 16 THEN RefBits(c[3], 8)[k - 8]
                     ELSE IF k < 24 THEN RefBits(c[4], 8)[k - 16]
                     ELSE RefBits(c[5], 8)[k - 24]]

\* Step 3, one iteration.
RefStep(r, b) ==
    LET f == (b + r[0]) % 2
        old == [k \in 0..23 |-> IF k < 23 THEN r[k + 1] ELSE 0]
        shifted == [k \in 0..23 |-> IF k = 23 THEN f ELSE old[k]]
        hb == shifted[23]
    IN  [k \in 0..23 |-> IF k = 20 THEN (shifted[20] + hb) % 2
                         ELSE IF k \in RefTaps THEN (old[k] + hb) % 2
                         ELSE shifted[k]]

\* Steps 3 and 4: 32 iterations over an input word, the state as a number.
RECURSIVE RefLoop(_, _, _)
RefLoop(r, in, i) ==
    IF i = 32 THEN r
    ELSE LET next == RefValue(RefStep(RefBits(r, 24), in[i]), 24)
         IN  IF next >= 0 THEN RefLoop(next, in, i + 1) ELSE next

RefState(s, c) == RefBits(RefLoop(RefLoop(12927401, RefIn1(s, c), 0), RefIn2(c), 0), 24)

\* Step 5 as printed: key bits 12..15 are taken by `(r >> 12) & 0xF0`.
RefReorderAsPrinted(r) ==
    [k \in 0..23 |-> IF k < 4 THEN r[k + 16]
                     ELSE IF k < 8 THEN r[k - 4]
                     ELSE IF k < 12 THEN r[k + 12]
                     ELSE IF k < 16 THEN r[k + 4]
                     ELSE r[k - 12]]

\* Step 5 with key bits 12..15 taken by `(r >> 8) & 0xF0`.
RefReorder(r) ==
    [k \in 0..23 |-> IF k < 4 THEN r[k + 16]
                     ELSE IF k < 8 THEN r[k - 4]
                     ELSE IF k < 12 THEN r[k + 12]
                     ELSE IF k < 16 THEN r[k]
                     ELSE r[k - 12]]

\* C34 as stated: the key returned equals the reference transformation with
\* the final reorder as printed, and lies in [0, 2^24).
C34_Original ==
    k_pc = "done" =>
        /\ k_key \in 0..16777215
        /\ k_key = RefValue(RefReorderAsPrinted(RefState(k_seed, DC0314_CONSTANTS)), 24)

\* C34: the key returned lies in [0, 2^24) and equals the reference
\* transformation whose final reorder takes key bits 12..15 from state bits
\* 12..15.
C34_KeyMatchesReference ==
    k_pc = "done" =>
        /\ k_key \in 0..16777215
        /\ k_key = RefValue(RefReorder(RefState(k_seed, DC0314_CONSTANTS)), 24)

\* The key of the canonical seed 0x112233.
C34_Witness ==
    /\ k_pc = "done"
    /\ k_seed = 1122867
    /\ k_key = 4952220

\* ------------------------------------------------------------------ C35
\* The codes the variants of the enum are declared for.
NamedCodes ==
    {16, 17, 18, 19, 20, 33, 34, 36, 37, 38, 49, 51, 52, 53, 54, 55, 56, 57, 58, 112, 113,
     114, 115, 120, 126, 127}

\* C35: for every byte b, to_byte(from_byte(b)) is b; from_byte(b) is
\* Unknown(b) exactly when b is not a named code; is_pending holds exactly
\* for 0x78.
C35_NrcRoundTrip ==
    n_pc = "done" =>
        /\ n_back = n_byte
        /\ (n_nrc.variant = "Unknown") <=> (n_byte \notin NamedCodes)
        /\ n_nrc.variant = "Unknown" => n_nrc.code = n_byte
        /\ is_pending(n_nrc) <=> (n_byte = NRC_PENDING)

\* An unknown byte made the round trip.
C35_Witness ==
    /\ n_pc = "done"
    /\ n_byte = 187
    /\ n_nrc = [variant |-> "Unknown", code |-> 187]
    /\ n_back = 187

\* ------------------------------------------------------------------ C36
\* C36: a message built by new_iso15765 has protocol 6, the pad flag,
\* data_size 4 + len(payload), the tx_id big-endian in its first four bytes
\* and the payload after them; can_id and payload give back the tx_id and
\* the payload, the empty payload included.
C36_MsgRoundTrip ==
    m_pc = "done" =>
        /\ m_msg.protocol_id = 6
        /\ (m_msg.tx_flags \div 64) % 2 = 1
        /\ m_msg.data_size = 4 + Len(m_pl)
        /\ Len(m_msg.data) = m_msg.data_size
        /\ m_msg.data[1] = m_tx \div 16777216
        /\ m_msg.data[2] = (m_tx \div 65536) % 256
        /\ m_msg.data[3] = (m_tx \div 256) % 256
        /\ m_msg.data[4] = m_tx % 256
        /\ \A i \in 1..Len(m_pl) : m_msg.data[4 + i] = m_pl[i]
        /\ m_id = m_tx
        /\ m_out = m_pl

\* A tx_id with four distinct header bytes and a full payload made the trip.
C36_Witness ==
    /\ m_pc = "done"
    /\ m_tx = 305419896
    /\ m_id = 305419896
    /\ Len(m_pl) = MaxMsgLen
    /\ m_out = m_pl

\* The empty payload made the trip.
C36_WitnessEmpty ==
    /\ m_pc = "done"
    /\ m_pl = << >>
    /\ m_msg.data_size = 4
    /\ m_out = << >>

\* ------------------------------------------------------------------ C37
RoutineSent == \E i \in 1..Len(s_sent) : SubSeq(s_sent[i], 1, 2) = <<49, 1>>

\* 27 12 went out and was positively acknowledged.
KeyAcknowledged ==
    \E i \in 1..Len(s_sent) :
        /\ SubSeq(s_sent[i], 1, 2) = <<39, 18>>
        /\ s_failed_at # i
        /\ s_pc \in {"routine", "done"}

\* C37: run_routine sends 31 01 rid for a routine that requires security
\* only after an all-zero seed was returned or the key was positively
\* acknowledged; a seed response too short for a 3-byte seed never lets the
\* routine request go out.
C37_RoutineOnlyAfterSecurity ==
    (s_impl = "commands" /\ s_needs_security /\ RoutineSent) =>
        /\ Len(s_seed_resp) >= 5
        /\ ZeroSeed \/ KeyAcknowledged

\* ------------------------------------------------------------------ C38
\* C38: whenever no command holds the connection and the connection is
\* present, it holds an open ISO-TP channel.
C38_ConnectedHoldsChannel ==
    (lock = 0 /\ connected /\ ~crashed) => (channel /\ iso_open)

\* ------------------------------------------------------------------ C39
\* The toggle_bench_mode call of thread t returns an error: there is no
\* connection, or it enables with a list that has no valid ECU id.
ToggleErrs(t) ==
    /\ cmd[t].kind = "toggle_bench_mode"
    /\ lock = t
    /\ \/ ~connected
       \/ cmd[t].enabled /\ ecu_ids(cmd[t].ecus) = << >>

\* C39: no step of a toggle_bench_mode call that returns an error changes
\* the bench-mode state: the emulator, its ECUs, its worker's handle and
\* flag, and the raw-CAN channel stay as they were.
C39_FailedToggleKeepsBenchMode ==
    [][(\E t \in T : ToggleErrs(t)) =>
          UNCHANGED <<mgr, mgr_ecus, handle, running, can_channel, can_open>>]_vars

\* ------------------------------------------------------------------ C40
\* The connect call of thread t is returning an error of a step after
\* J2534Device::open.
ConnectFailedLate(t) ==
    /\ pc[t] = "ret"
    /\ cmd[t].kind = "connect"
    /\ retval[t] \in {"Err: PassThruConnect failed", "Err: PassThruStartMsgFilter failed"}

\* C40: a connect that fails after the device was opened returns with the
\* state disconnected and everything it opened released: no channel, no
\* filters, the device closed, the library unloaded.
C40_FailedConnectReleasesAll ==
    \A t \in T : ConnectFailedLate(t) =>
        /\ ~connected
        /\ ~channel /\ ~can_channel /\ ~mgr /\ ~handle
        /\ ~dev_open /\ ~iso_open /\ ~can_open /\ ~pre_can_open
        /\ lib_refs = 0
        /\ filters = << >>
        /\ todo[t] = << >>

\* The filter installation failed and the call is returning.
C40_Witness ==
    \E t \in T :
        /\ ConnectFailedLate(t)
        /\ retval[t] = "Err: PassThruStartMsgFilter failed"
        /\ ~connected /\ ~dev_open /\ ~iso_open /\ lib_refs = 0

====
